---------------------------- MODULE Spec2Model ----------------------------
(***************************************************************************)
(* A model of the DE20 record-processing pipeline: the join engine of the  *)
(* ingestion handler, the rule engine of the DQ handler, the               *)
(* transformation and router handlers, and the controller that threads a   *)
(* result envelope through the declared components.                        *)
(*                                                                         *)
(* A Record (a Python dict) is a sequence of <<column, value>> pairs with  *)
(* distinct columns: insertion order is kept, as a dict keeps it.  A batch *)
(* is a sequence of Records.  Values are strings; Python's None is the     *)
(* value None below.                                                       *)
(***************************************************************************)
EXTENDS Integers, Sequences, FiniteSets, Bags, TLC

VARIABLES
    \* ---- join_datasets applied to drawn inputs (SpecJoin) ----
    parent_data,      \* the parent dataset handed to join_datasets
    child_data,       \* the child dataset handed to join_datasets
    join_type,        \* "left" or "inner"
    joined,           \* what join_datasets returned for child_data
    jpc,              \* "ready" before the call, "done" after it
    \* ---- controller.main (Spec) ----
    components,       \* execution_pipeline.components of the pipeline config
    i,                \* index (1-based) of the component the loop is at
    pipeline_data,    \* the envelope handed to the next component
    results,          \* component_type -> result, in insertion order
    all_success,      \* main's all_success flag
    failed_component, \* main's failed_component
    pc,               \* "loop", "summary", "done" or "config_error"
    ret,              \* what main returned
    summary,          \* the per-stage lines of the final summary
    calls,            \* history: one entry per execute_component call
    batches,          \* the batch objects: batches[b] is the rows of batch b
    \* ---- process_ingestion applied to a drawn config (SpecIngest) ----
    ing_config,       \* the parsed ingestion config: sources and relationships
    ingested,         \* [result, heap] that process_ingestion left
    ipc,              \* "ready" before the call, "done" after it
    \* ---- read_delimited_file applied to a drawn file (SpecRead) ----
    file_lines,       \* the lines of the file, each a sequence of characters
    with_header,      \* the has_header argument
    read_out,         \* [data, headers] that read_delimited_file returned
    rpc,              \* "ready" before the call, "done" after it
    \* ---- the rule engine applied to a drawn batch and rules (SpecDQ) ----
    dq_data,          \* the batch handed to the checks
    rules,            \* dq_rules of the parsed DQ config
    found,            \* what the check function of the only rule returned
    engine_out,       \* what run_dq_checks returned
    dqpc,             \* "ready", "checked" (one check function ran) or "done"
    \* ---- run_transformations applied to a drawn batch (SpecTransform) ----
    tr_data,          \* the batch handed to the loop over the transformations
    tr_specs,         \* transformations of the parsed config
    tr_steps,         \* the batch after each transformation, in order
    tpc,              \* "ready" before the call, "done" after it
    \* ---- process_router applied to a drawn config (SpecRoute) ----
    rt_data,          \* the batch of the input envelope
    rt_dests,         \* destinations of the parsed router config
    routed,           \* [result, heap] that process_router left
    rtpc              \* "ready" before the call, "done" after it

joinVars == <<parent_data, child_data, join_type, joined, jpc>>
mainVars == <<components, i, pipeline_data, results, all_success,
              failed_component, pc, ret, summary, calls, batches>>
ingestVars == <<ing_config, ingested, ipc>>
readVars == <<file_lines, with_header, read_out, rpc>>
dqVars == <<dq_data, rules, found, engine_out, dqpc>>
trVars == <<tr_data, tr_specs, tr_steps, tpc>>
rtVars == <<rt_data, rt_dests, routed, rtpc>>
unitVars == <<ingestVars, readVars, dqVars, trVars, rtVars>>
vars == <<joinVars, mainVars, unitVars>>

-----------------------------------------------------------------------------
(* Python values and dicts *)

\* Python's None, as a column value and as an absent result.
None == "<None>"

\* list(d.keys())
Keys(row) == [n \in 1..Len(row) |-> row[n][1]]

\* k in d
HasKey(row, k) == \E n \in 1..Len(row) : row[n][1] = k

\* d.get(k, default)
Get(row, k, default) ==
    IF HasKey(row, k)
    THEN row[CHOOSE n \in 1..Len(row) : row[n][1] = k][2]
    ELSE default

\* d.setdefault(k, v): the first value of a key stays
PutKeepFirst(row, k, v) == IF HasKey(row, k) THEN row ELSE Append(row, <<k, v>>)

\* d[k] = v : overwrite in place when k is a key, append it otherwise
Put(row, k, v) ==
    IF HasKey(row, k)
    THEN [n \in 1..Len(row) |-> IF row[n][1] = k THEN <<k, v>> ELSE row[n]]
    ELSE Append(row, <<k, v>>)

\* f"order_{k}" for the column names of the model
Prefixed(k) ==
    CASE k = "id"      -> "order_id"
      [] k = "x"       -> "order_x"
      [] k = "order_x" -> "order_order_x"
      [] OTHER         -> "order_" \o k

-----------------------------------------------------------------------------
(* ingestion_handler.join_datasets *)

\* merged = {**parent_row}; then every child item but the join key is
\* written under its own name, or under the prefixed name when the parent
\* row has a column of that name.
RECURSIVE MergeItems(_, _, _, _, _)
MergeItems(merged, parent_row, child_row, join_key, n) ==
    IF n > Len(child_row) THEN merged
    ELSE LET k == child_row[n][1]
             v == child_row[n][2]
         IN IF k # join_key
            THEN MergeItems(Put(merged, IF HasKey(parent_row, k) THEN Prefixed(k) ELSE k, v),
                            parent_row, child_row, join_key, n + 1)
            ELSE MergeItems(merged, parent_row, child_row, join_key, n + 1)

MergeRows(parent_row, child_row, join_key) ==
    MergeItems(parent_row, parent_row, child_row, join_key, 1)

\* child_lookup.get(key, []): the child rows whose join-key value is key,
\* in child order (the lookup groups the rows by row.get(join_key))
ChildLookupOneToOne(child, join_key, key) ==
    LET rows == SelectSeq(child, LAMBDA row : Get(row, join_key, None) = key)
    IN IF rows = <<>> THEN <<>> ELSE <<rows[Len(rows)]>>

ChildLookup(child, join_key, key) ==
    SelectSeq(child, LAMBDA row : Get(row, join_key, None) = key)

\* the records one parent row appends to result
JoinBlockDropUnmatched(parent_row, child, join_key, jtype) ==
    LET child_rows == ChildLookup(child, join_key, Get(parent_row, join_key, None))
    IN [n \in 1..Len(child_rows) |-> MergeRows(parent_row, child_rows[n], join_key)]

JoinBlock(parent_row, child, join_key, jtype) ==
    LET child_rows == ChildLookup(child, join_key, Get(parent_row, join_key, None))
    IN IF child_rows # <<>>
       THEN [n \in 1..Len(child_rows) |-> MergeRows(parent_row, child_rows[n], join_key)]
       ELSE IF jtype = "left" THEN <<parent_row>> ELSE <<>>

RECURSIVE JoinLoop(_, _, _, _, _)
JoinLoop(parent, child, join_key, jtype, n) ==
    IF n > Len(parent) THEN <<>>
    ELSE JoinBlock(parent[n], child, join_key, jtype)
         \o JoinLoop(parent, child, join_key, jtype, n + 1)

\* join_datasets without the check of the parent dataset
join_datasets_unchecked(parent, child, join_key, jtype) ==
    [ok |-> TRUE, value |-> JoinLoop(parent, child, join_key, jtype, 1)]

\* The call: [ok |-> TRUE, value |-> result] on return, and
\* [ok |-> FALSE, error |-> message] when IngestionError is raised.
join_datasets(parent, child, join_key, jtype) ==
    IF parent = <<>>
    THEN [ok |-> FALSE,
          error |-> "[INGESTION] Join operation failed: [INGESTION] Parent dataset is empty"]
    ELSE [ok |-> TRUE, value |-> JoinLoop(parent, child, join_key, jtype, 1)]

-----------------------------------------------------------------------------
(* Python objects, exceptions, and the files the handlers read *)

\* None where a dict or a list is expected (an envelope, dq_results, a
\* return value); column values and paths use None above.
NoneObj == [py_none |-> TRUE]

\* d.get(name, default) for a parsed YAML mapping
Field(doc, name, default) == IF name \in DOMAIN doc THEN doc[name] ELSE default

\* not v, for a string or None
Falsy(v) == v = None \/ v = ""

\* A number held in a record (an int or a float): the sign, the magnitude
\* n/d and whether it is an int.  The sign of a float zero is kept, as -0.0
\* is.
IntNum(k) == [neg |-> FALSE, n |-> k, d |-> 1, int |-> TRUE]
FloatNum(neg, hundredths) == [neg |-> neg, n |-> hundredths, d |-> 100, int |-> FALSE]

\* repr of a number: 2024 for an int, 8.0, 1.33 or -0.67 for a float of at
\* most two decimals
Repr(x) ==
    IF x.int THEN ToString(x.n)
    ELSE (IF x.neg THEN "-" ELSE "") \o ToString(x.n \div 100) \o "."
         \o (IF x.n % 10 = 0 THEN ToString((x.n % 100) \div 10)
             ELSE (IF x.n % 100 < 10 THEN "0" ELSE "") \o ToString(x.n % 100))

\* The value of a column that holds a number: its repr between brackets, so
\* that the int 4 is not the string '4'.
NumberValue(x) == "<" \o Repr(x) \o ">"

\* the floats of the model reach 30.00 in magnitude; the ints are 0 and the
\* parts of the dates
MaxHundredths == 3000

\* the floats of both signs with the hundredths lo..hi, by their value
RECURSIVE FloatValues(_, _)
FloatValues(lo, hi) ==
    IF lo = hi
    THEN (NumberValue(FloatNum(FALSE, lo)) :> FloatNum(FALSE, lo))
         @@ (NumberValue(FloatNum(TRUE, lo)) :> FloatNum(TRUE, lo))
    ELSE FloatValues(lo, (lo + hi) \div 2) @@ FloatValues((lo + hi) \div 2 + 1, hi)

\* the numbers of the model, by their value
Numbers ==
    FloatValues(0, MaxHundredths)
    @@ (NumberValue(IntNum(0)) :> IntNum(0)) @@ (NumberValue(IntNum(1)) :> IntNum(1))
    @@ (NumberValue(IntNum(15)) :> IntNum(15)) @@ (NumberValue(IntNum(2024)) :> IntNum(2024))

IsNumber(v) == v \in DOMAIN Numbers

\* the repr of the number a value stands for: what NumberValue put between
\* "<" and ">"
ReprOf(v) == SubSeq(v, 2, Len(v) - 1)

\* str(v): 'None' for None, the repr of a number, the string itself
Str(v) ==
    IF v = None THEN "None"
    ELSE IF Len(v) > 2 /\ SubSeq(v, 1, 1) = "<" /\ SubSeq(v, Len(v), Len(v)) = ">"
         THEN ReprOf(v)
         ELSE v

\* str(e) of a PipelineError with a component
ErrStr(component, message) == "[" \o component \o "] " \o message

\* a raised exception, and a normal return
Raise(kind, message) == [raised |-> TRUE, kind |-> kind, message |-> message]
Return(value) == [raised |-> FALSE, value |-> value]

\* The configuration documents on disk, by path; a path that is not here
\* does not exist.
ConfigFiles ==
    [ INGESTER_CONFIG |->
        [sources |-> << [name |-> "customers", path |-> "/app/data/customers.txt", delimiter |-> "|"],
                        [name |-> "orders", path |-> "/app/data/orders.txt", delimiter |-> "|"] >>,
         relationships |-> << [name |-> "customer_orders", parent |-> "customers",
                               child |-> "orders", join_key |-> "id", join_type |-> "left"] >>],
      INGESTER_NOREL |->
        [sources |-> << [name |-> "customers", path |-> "/app/data/customers.txt", delimiter |-> "|"] >>],
      INGESTER_INNER |->
        [sources |-> << [name |-> "customers", path |-> "/app/data/customers.txt", delimiter |-> "|"],
                        [name |-> "notes", path |-> "/app/data/empty.txt", delimiter |-> "|"] >>,
         relationships |-> << [name |-> "customer_notes", parent |-> "customers",
                               child |-> "notes", join_key |-> "id", join_type |-> "inner"] >>],
      DQ_CHECKS_CONFIG |->
        [dq_rules |-> << [rule_name |-> "null_check", columns |-> <<"amount">>, action |-> "fail"],
                         [rule_name |-> "duplicate_check", columns |-> <<"id">>] >>],
      DQ_WARN_CONFIG |->
        [dq_rules |-> << [rule_name |-> "duplicate_check", columns |-> <<"id">>, action |-> "warn"] >>],
      TRANSFORMATIONS_CONFIG |->
        [transformations |-> << [name |-> "upper_name", type |-> "string_transform",
                                 source_column |-> "name", target_column |-> "name_upper",
                                 operation |-> "uppercase"],
                                [name |-> "copy_amount", type |-> "date_format",
                                 source_column |-> "amount", target_column |-> "amount_fmt",
                                 format |-> "%Y-%m-%d"],
                                [name |-> "upper_in_place", type |-> "string_transform",
                                 source_column |-> "name", target_column |-> "name",
                                 operation |-> "uppercase"] >>],
      ROUTER_CONFIG |->
        [destinations |-> << [name |-> "s3_archive", type |-> "s3", enabled |-> TRUE],
                             [name |-> "warehouse", type |-> "redshift", enabled |-> FALSE],
                             [name |-> "events", type |-> "kinesis"] >>] ]

\* The delimited files on disk, by path: each line a sequence of characters
\* and delimiters before it is split.
DataFiles ==
    [ customers |-> << <<"id", "|", "name">>,
                       <<"1", "|", "ann">>,
                       <<"2", "|", "bob">> >>,
      orders    |-> << <<"id", "|", "amount">>,
                       <<"1", "|", "10">>,
                       <<>>,
                       <<"1", "|">> >>,
      empty     |-> << <<"id", "|", "note">> >> ]

\* the key of a path in ConfigFiles and DataFiles
PathKey(path) ==
    CASE path = "/app/config/INGESTER_CONFIG.yaml" -> "INGESTER_CONFIG"
      [] path = "/app/config/INGESTER_NOREL.yaml" -> "INGESTER_NOREL"
      [] path = "/app/config/INGESTER_INNER.yaml" -> "INGESTER_INNER"
      [] path = "/app/config/DQ_CHECKS_CONFIG.yaml" -> "DQ_CHECKS_CONFIG"
      [] path = "/app/config/DQ_WARN_CONFIG.yaml" -> "DQ_WARN_CONFIG"
      [] path = "/app/config/TRANSFORMATIONS_CONFIG.yaml" -> "TRANSFORMATIONS_CONFIG"
      [] path = "/app/config/ROUTER_CONFIG.yaml" -> "ROUTER_CONFIG"
      [] path = "/app/data/customers.txt" -> "customers"
      [] path = "/app/data/orders.txt" -> "orders"
      [] path = "/app/data/empty.txt" -> "empty"
      [] OTHER -> "absent"

\* load_config of a handler: ConfigError when the file does not exist
load_config(yaml_file_path) ==
    IF PathKey(yaml_file_path) \in DOMAIN ConfigFiles
    THEN Return(ConfigFiles[PathKey(yaml_file_path)])
    ELSE Raise("ConfigError", ErrStr("CONFIG", "Config file not found: " \o Str(yaml_file_path)))

-----------------------------------------------------------------------------
(* ingestion_handler.read_delimited_file *)

\* line.strip(): leading and trailing blanks dropped
RECURSIVE StripLine(_)
StripLine(line) ==
    IF line = <<>> THEN line
    ELSE IF Head(line) = " " THEN StripLine(Tail(line))
    ELSE IF line[Len(line)] = " " THEN StripLine(SubSeq(line, 1, Len(line) - 1))
    ELSE line

\* line.split(delimiter): the text between the delimiters, one field more
\* than there are delimiters
RECURSIVE SplitFrom(_, _, _, _)
SplitFrom(line, delimiter, n, field) ==
    IF n > Len(line) THEN <<field>>
    ELSE IF line[n] = delimiter
         THEN <<field>> \o SplitFrom(line, delimiter, n + 1, "")
         ELSE SplitFrom(line, delimiter, n + 1, field \o line[n])

Split(line, delimiter) == SplitFrom(line, delimiter, 1, "")

\* row = {headers[j]: fields[j] if j < len(fields) else None ...}
RECURSIVE ZipRow(_, _, _, _)
ZipRow(headers, fields, j, row) ==
    IF j > Len(headers) THEN row
    ELSE ZipRow(headers, fields, j + 1,
                Put(row, headers[j], IF j <= Len(fields) THEN fields[j] ELSE None))

\* the loop over the lines of the file; n is the line number from 1
RECURSIVE ReadLines(_, _, _, _, _, _)
ReadLines(lines, delimiter, has_header, n, headers, data) ==
    IF n > Len(lines) THEN [data |-> data, headers |-> headers]
    ELSE LET line == StripLine(lines[n])
         IN IF line = <<>>
            THEN ReadLines(lines, delimiter, has_header, n + 1, headers, data)
            ELSE LET fields == Split(line, delimiter)
                 IN IF n = 1 /\ has_header
                    THEN ReadLines(lines, delimiter, has_header, n + 1, fields, data)
                    ELSE IF headers # <<>>
                         THEN ReadLines(lines, delimiter, has_header, n + 1, headers,
                                        Append(data, ZipRow(headers, fields, 1, <<>>)))
                         ELSE ReadLines(lines, delimiter, has_header, n + 1, headers, data)

read_delimited_file(file_path, delimiter, has_header) ==
    IF PathKey(file_path) \notin DOMAIN DataFiles
    THEN Raise("IngestionError", "Source file not found: " \o Str(file_path))
    ELSE Return(ReadLines(DataFiles[PathKey(file_path)], delimiter, has_header, 1, <<>>, <<>>))

-----------------------------------------------------------------------------
(* ingestion_handler.process_ingestion *)

\* The heap of batches: heap[b] is the list of rows of batch object b.  An
\* envelope's data is a batch object, so that a stage which mutates the rows
\* in place changes what every envelope holding that object shows.  Object 0
\* is an empty list literal.
EmptyList == 0
Deref(heap, b) == IF b = EmptyList THEN <<>> ELSE heap[b]

\* not data, for a list
NotDataNever(data) == FALSE

NotData(data) == data = <<>>

\* len(data), as record_count holds it
RecordCountWithHeader(data) == IF data = <<>> THEN 0 ELSE Len(data) + 1

RecordCount(data) == Len(data)

\* list(data[0].keys()) if data else []
HeadersOf(data) == IF data # <<>> THEN Keys(data[1]) ELSE <<>>

\* the loop that loads the sources into datasets
RECURSIVE LoadSources(_, _, _)
LoadSources(sources, n, datasets) ==
    IF n > Len(sources) THEN Return(datasets)
    ELSE LET source == sources[n]
             name == Field(source, "name", None)
             file_path == Field(source, "path", None)
             delimiter == Field(source, "delimiter", ",")
             has_header == Field(source, "has_header", TRUE)
         IN IF Falsy(name) \/ Falsy(file_path)
            THEN Raise("ConfigError",
                       ErrStr("CONFIG", "Invalid source configuration: missing name or path"))
            ELSE LET read == read_delimited_file(file_path, delimiter, has_header)
                 IN IF read.raised THEN Raise(read.kind, ErrStr("INGESTION", read.message))
                    ELSE LoadSources(sources, n + 1, Put(datasets, name, read.value))

\* the loop over the relationships, each joined into datasets[rel_name]
RECURSIVE JoinRelationships(_, _, _)
JoinRelationships(relationships, n, datasets) ==
    IF n > Len(relationships) THEN Return(datasets)
    ELSE LET rel == relationships[n]
             rel_name == Field(rel, "name", None)
             parent_name == Field(rel, "parent", None)
             child_name == Field(rel, "child", None)
             join_key == Field(rel, "join_key", None)
             jtype == Field(rel, "join_type", "left")
         IN IF Falsy(rel_name) \/ Falsy(parent_name) \/ Falsy(child_name) \/ Falsy(join_key)
            THEN Raise("ConfigError", ErrStr("CONFIG", "Invalid relationship configuration"))
            ELSE IF ~HasKey(datasets, parent_name)
            THEN Raise("IngestionError",
                       ErrStr("INGESTION", "Parent dataset '" \o parent_name \o "' not found"))
            ELSE IF ~HasKey(datasets, child_name)
            THEN Raise("IngestionError",
                       ErrStr("INGESTION", "Child dataset '" \o child_name \o "' not found"))
            ELSE LET joined_data ==
                         join_datasets(Get(datasets, parent_name, NoneObj).data,
                                       Get(datasets, child_name, NoneObj).data,
                                       join_key, jtype)
                 IN IF ~joined_data.ok THEN Raise("IngestionError", joined_data.error)
                    ELSE JoinRelationships(relationships, n + 1,
                             Put(datasets, rel_name,
                                 [data |-> joined_data.value,
                                  headers |-> HeadersOf(joined_data.value)]))

\* the envelope of a failed ingestion
IngestionFailed(error) ==
    [data |-> EmptyList, headers |-> <<>>, record_count |-> 0, output_path |-> None,
     status |-> "FAILED", error |-> error]

\* output_data of the first relationship instead of the last
OutputDataFirst(relationships, datasets) ==
    IF relationships # <<>>
    THEN Get(datasets, Field(relationships[1], "name", None), [data |-> <<>>]).data
    ELSE <<>>

\* output_data: datasets.get(last_rel, {}).get('data', []) when there are
\* relationships, [] otherwise
OutputData(relationships, datasets) ==
    IF relationships # <<>>
    THEN Get(datasets, Field(relationships[Len(relationships)], "name", None),
             [data |-> <<>>]).data
    ELSE <<>>

\* process_ingestion from the parsed config on:
\* [result |-> envelope, heap |-> heap']
IngestConfig(config, heap) ==
    LET sources == Field(config, "sources", <<>>)
        relationships == Field(config, "relationships", <<>>)
    IN IF sources = <<>>
       THEN [result |-> IngestionFailed(ErrStr("CONFIG", "No sources defined in config")),
             heap |-> heap]
       ELSE
       LET loaded == LoadSources(sources, 1, <<>>)
       IN IF loaded.raised THEN [result |-> IngestionFailed(loaded.message), heap |-> heap]
          ELSE
          LET rels == JoinRelationships(relationships, 1, loaded.value)
          IN IF rels.raised THEN [result |-> IngestionFailed(rels.message), heap |-> heap]
             ELSE
             LET output_data == OutputData(relationships, rels.value)
                 heap2 == Append(heap, output_data)
             IN [result |-> [data |-> Len(heap2),
                             headers |-> HeadersOf(output_data),
                             record_count |-> RecordCount(output_data),
                             output_path |-> "/app/output/customer_complete_info.txt",
                             status |-> "SUCCESS"],
                 heap |-> heap2]

\* process_ingestion(config_path) with the heap it leaves
process_ingestion(config_path, heap) ==
    LET config == load_config(config_path)
    IN IF config.raised THEN [result |-> IngestionFailed(config.message), heap |-> heap]
       ELSE IngestConfig(config.value, heap)

-----------------------------------------------------------------------------
(* dq_check_handler: the rule engine *)

\* s.strip() for the values of the model
StripStrNot(s) == s

StripStr(s) ==
    CASE s = " "     -> ""
      [] s = " ann " -> "ann"
      [] OTHER       -> s

\* sep.join(parts)
RECURSIVE JoinWith(_, _, _)
JoinWith(parts, sep, n) ==
    IF n > Len(parts) THEN ""
    ELSE IF n = Len(parts) THEN parts[n]
    ELSE parts[n] \o sep \o JoinWith(parts, sep, n + 1)

\* ', '.join(columns)
RECURSIVE JoinNames(_, _)
JoinNames(columns, n) ==
    IF n > Len(columns) THEN ""
    ELSE IF n = Len(columns) THEN columns[n]
    ELSE columns[n] \o ", " \o JoinNames(columns, n + 1)

\* check_null_values: rows from index 0, the columns in order within a row
RECURSIVE NullScan(_, _, _, _, _)
NullScan(data, columns, n, c, failed_records) ==
    IF n > Len(data) THEN failed_records
    ELSE IF c > Len(columns) THEN NullScan(data, columns, n + 1, 1, failed_records)
    ELSE LET value == Get(data[n], columns[c], "")
         IN IF value = None \/ StripStr(Str(value)) = ""
            THEN NullScan(data, columns, n, c + 1,
                          Append(failed_records,
                                 [record_index |-> n - 1, column |-> columns[c],
                                  value |-> value, issue |-> "NULL or empty value"]))
            ELSE NullScan(data, columns, n, c + 1, failed_records)

check_null_values(data, columns) == NullScan(data, columns, 1, 1, <<>>)

\* str(key) of a tuple of strings
TupleStr(key) ==
    "(" \o JoinNames([c \in 1..Len(key) |-> "'" \o key[c] \o "'"], 1)
        \o (IF Len(key) = 1 THEN "," ELSE "") \o ")"

\* an issue text that counts the records from 1
DuplicateIssueFromOne(first) ==
    "Duplicate found (first occurrence at record " \o ToString(first + 1) \o ")"

\* f'Duplicate found (first occurrence at record {seen[key]})'
DuplicateIssue(first) ==
    "Duplicate found (first occurrence at record " \o ToString(first) \o ")"

\* check_duplicates: seen maps a key to the index of its first occurrence
RECURSIVE DupScan(_, _, _, _, _)
DupScan(data, columns, n, seen, failed_records) ==
    IF n > Len(data) THEN failed_records
    ELSE LET key == [c \in 1..Len(columns) |-> Str(Get(data[n], columns[c], ""))]
         IN IF HasKey(seen, key)
            THEN DupScan(data, columns, n + 1, seen,
                         Append(failed_records,
                                [record_index |-> n - 1, column |-> JoinNames(columns, 1),
                                 value |-> TupleStr(key),
                                 issue |-> DuplicateIssue(Get(seen, key, None))]))
            ELSE DupScan(data, columns, n + 1, Put(seen, key, n - 1), failed_records)

check_duplicates(data, columns) == DupScan(data, columns, 1, <<>>, <<>>)

\* The int 0 that apply_derived_column writes into a record when the
\* expression fails.
Zero == "<0>"

\* an optional number (min_value, max_value): no element for None
NoNumber == <<>>
Number(n) == <<n>>

\* the strings of this model that float() parses, and their values
FloatTable ==
    [t \in {"3", "5", "7", "10", "12"} |->
        CASE t = "3" -> 3 [] t = "5" -> 5 [] t = "7" -> 7 [] t = "10" -> 10 [] OTHER -> 12]

\* bool(value) is False: None, the empty string and the number 0
FalsyValue(value) == Falsy(value) \/ value \in {Zero, "<0.0>", "<-0.0>"}

\* float(value) raises ValueError
FloatRaises(value) == ~FalsyValue(value) /\ value \notin DOMAIN FloatTable

\* f"{num_value}" of a float without a fraction
FloatStr(num_value) == ToString(num_value) \o ".0"

\* the failures check_range appends for one row
RangeRow(index, column, value, min_value, max_value) ==
    IF FalsyValue(value) THEN <<>>
    ELSE IF FloatRaises(value)
    THEN << [record_index |-> index, column |-> column, value |-> value,
             issue |-> "Invalid numeric value"] >>
    ELSE LET num_value == FloatTable[value]
         IN (IF min_value # NoNumber /\ num_value < min_value[1]
             THEN << [record_index |-> index, column |-> column, value |-> value,
                      issue |-> "Value " \o FloatStr(num_value) \o " is below minimum "
                                \o ToString(min_value[1])] >>
             ELSE <<>>)
            \o
            (IF max_value # NoNumber /\ num_value > max_value[1]
             THEN << [record_index |-> index, column |-> column, value |-> value,
                      issue |-> "Value " \o FloatStr(num_value) \o " exceeds maximum "
                                \o ToString(max_value[1])] >>
             ELSE <<>>)

\* check_range: rows from index 0
RECURSIVE RangeScan(_, _, _, _, _)
RangeScan(data, column, min_value, max_value, n) ==
    IF n > Len(data) THEN <<>>
    ELSE RangeRow(n - 1, column, Get(data[n], column, ""), min_value, max_value)
         \o RangeScan(data, column, min_value, max_value, n + 1)

check_range(data, column, min_value, max_value) ==
    RangeScan(data, column, min_value, max_value, 1)

\* The characters of the strings that check_pattern matches in this model.
Chars(value) ==
    CASE value = "ann"  -> <<"a", "n", "n">>
      [] value = "ann1" -> <<"a", "n", "n", "1">>
      [] value = "1ann" -> <<"1", "a", "n", "n">>
      [] value = "12"   -> <<"1", "2">>
      [] value = "None" -> <<"N", "o", "n", "e">>
      [] value = " "    -> <<" ">>
      [] OTHER          -> <<>>

\* The regular expressions of this model, compiled: a sequence of character
\* classes, each taken once or (plus) once or more, and whether the match
\* must reach the end of the string ($).
LowerCase == {"a", "n", "o", "e"}
Digits == {"1", "2"}

Compile(pattern) ==
    CASE pattern = "[a-z]+"     -> [items |-> << [class |-> LowerCase, plus |-> TRUE] >>, end |-> FALSE]
      [] pattern = "^[a-z]+$"   -> [items |-> << [class |-> LowerCase, plus |-> TRUE] >>, end |-> TRUE]
      [] pattern = "[0-9]"      -> [items |-> << [class |-> Digits, plus |-> FALSE] >>, end |-> FALSE]
      [] pattern = "[a-z]+[0-9]$" -> [items |-> << [class |-> LowerCase, plus |-> TRUE],
                                                 [class |-> Digits, plus |-> FALSE] >>, end |-> TRUE]
      [] OTHER                  -> [items |-> <<>>, end |-> FALSE]

\* regex.match(value): a match of the items from position pos of the string
RECURSIVE MatchFrom(_, _, _, _)
MatchFrom(regex, chars, n, pos) ==
    IF n > Len(regex.items) THEN (~regex.end \/ pos = Len(chars) + 1)
    ELSE LET item == regex.items[n]
         IN \E count \in 1..(IF item.plus THEN Len(chars) ELSE 1) :
               /\ pos + count - 1 <= Len(chars)
               /\ \A q \in pos..(pos + count - 1) : chars[q] \in item.class
               /\ MatchFrom(regex, chars, n + 1, pos + count)

Match(regex, value) == MatchFrom(regex, Chars(value), 1, 1)

\* check_pattern: rows from index 0
RECURSIVE PatternScan(_, _, _, _)
PatternScan(data, column, pattern, n) ==
    IF n > Len(data) THEN <<>>
    ELSE LET value == Str(Get(data[n], column, ""))
         IN (IF value # "" /\ ~Match(Compile(pattern), value)
             THEN << [record_index |-> n - 1, column |-> column, value |-> value,
                      issue |-> "Value does not match pattern " \o pattern] >>
             ELSE <<>>)
            \o PatternScan(data, column, pattern, n + 1)

check_pattern(data, column, pattern) == PatternScan(data, column, pattern, 1)

\* the failures of one rule; a rule_name that is none of the four checks
\* finds nothing
RuleFailures(data, rule) ==
    LET rule_name == Field(rule, "rule_name", None)
    IN CASE rule_name = "null_check" -> check_null_values(data, Field(rule, "columns", <<>>))
         [] rule_name = "duplicate_check" -> check_duplicates(data, Field(rule, "columns", <<>>))
         [] rule_name = "range_check" ->
                check_range(data, Field(rule, "column", None),
                            Field(rule, "min_value", NoNumber), Field(rule, "max_value", NoNumber))
         [] rule_name = "format_check" ->
                check_pattern(data, Field(rule, "column", None), Field(rule, "pattern", None))
         [] OTHER -> <<>>

\* for f in failures: f['rule_name'] = rule_name; f['action'] = action
TagFailures(failures, rule_name, action) ==
    [n \in 1..Len(failures) |->
        [record_index |-> failures[n].record_index, column |-> failures[n].column,
         value |-> failures[n].value, issue |-> failures[n].issue,
         rule_name |-> rule_name, action |-> action]]

\* a rule status that tells violations of fail rules only
RuleStatusFailOnly(failures, action) ==
    IF action = "fail" /\ Len(failures) > 0 THEN "FAIL" ELSE "PASS"

\* 'PASS' if len(failures) == 0 else ('FAIL' if action == 'fail' else 'WARN')
RuleStatus(failures, action) ==
    IF Len(failures) = 0 THEN "PASS"
    ELSE IF action = "fail" THEN "FAIL" ELSE "WARN"

\* the loop over dq_rules
RECURSIVE RuleLoop(_, _, _, _)
RuleLoop(data, dq_rules, n, dq_results) ==
    IF n > Len(dq_rules) THEN dq_results
    ELSE LET rule == dq_rules[n]
             rule_name == Field(rule, "rule_name", None)
             action == Field(rule, "action", "warn")
             failures == RuleFailures(data, rule)
             rule_result ==
                 [rule_name |-> rule_name, action |-> action,
                  failure_count |-> Len(failures),
                  status |-> RuleStatus(failures, action)]
         IN RuleLoop(data, dq_rules, n + 1,
                [total_records |-> dq_results.total_records,
                 rules_executed |-> dq_results.rules_executed + 1,
                 total_failures |-> dq_results.total_failures
                                    + (IF action = "fail" THEN Len(failures) ELSE 0),
                 total_warnings |-> dq_results.total_warnings
                                    + (IF action = "fail" THEN 0 ELSE Len(failures)),
                 rule_results |-> Append(dq_results.rule_results, rule_result),
                 failed_records |-> dq_results.failed_records
                                    \o TagFailures(failures, rule_name, action)])

\* the results before the first rule
NoResults(data) ==
    [total_records |-> Len(data), rules_executed |-> 0,
     total_failures |-> 0, total_warnings |-> 0,
     rule_results |-> <<>>, failed_records |-> <<>>]

\* an engine that stops at the first rule with violations
RunRulesShortCircuit(data, config) ==
    LET dq_rules == Field(config, "dq_rules", <<>>)
        stop == IF \E n \in 1..Len(dq_rules) : RuleFailures(data, dq_rules[n]) # <<>>
                THEN CHOOSE n \in 1..Len(dq_rules) :
                        /\ RuleFailures(data, dq_rules[n]) # <<>>
                        /\ \A m \in 1..(n - 1) : RuleFailures(data, dq_rules[m]) = <<>>
                ELSE Len(dq_rules)
    IN RuleLoop(data, SubSeq(dq_rules, 1, stop), 1, NoResults(data))

\* run_dq_checks once the config is loaded
RunRules(data, config) ==
    RuleLoop(data, Field(config, "dq_rules", <<>>), 1, NoResults(data))

run_dq_checks(data, config_path) ==
    LET config == load_config(config_path)
    IN IF config.raised THEN config
       ELSE Return(RunRules(data, config.value))

\* the envelope of a DQ stage that did not run its checks
DQNotRun(status, error) ==
    [data |-> EmptyList, dq_results |-> NoneObj, output_path |-> None, record_count |-> 0,
     passed |-> FALSE, status |-> status, error |-> error]

\* passed of the SUCCESS envelope
DQPassed(dq_results) == dq_results.total_failures = 0

\* the "rule:column" issues of the record of an index, as the output file
\* lists them
RECURSIVE IssuesAt(_, _, _)
IssuesAt(failed_records, index, n) ==
    IF n > Len(failed_records) THEN <<>>
    ELSE (IF failed_records[n].record_index = index
          THEN <<Str(failed_records[n].rule_name) \o ":" \o failed_records[n].column>>
          ELSE <<>>)
         \o IssuesAt(failed_records, index, n + 1)

\* a write_dq_output that stores dq_status and dq_issues in the records
write_dq_output_annotating(data, dq_results) ==
    [n \in 1..Len(data) |->
        Put(Put(data[n], "dq_status",
                IF IssuesAt(dq_results.failed_records, n - 1, 1) # <<>> THEN "FAIL" ELSE "PASS"),
            "dq_issues", JoinWith(IssuesAt(dq_results.failed_records, n - 1, 1), "; ", 1))]

\* write_dq_output: the records in memory once the output file is written;
\* dq_status and dq_issues go to the lines of the file only
write_dq_output(data, dq_results) == data

\* process_dq_checks(config_path, input_data): [result, heap, engine], where
\* engine says whether run_dq_checks was called
process_dq_checks(config_path, input_data, heap) ==
    IF input_data = NoneObj
    THEN [result |-> DQNotRun("SKIPPED", "No input data provided"),
          heap |-> heap, engine |-> FALSE]
    ELSE LET data == Field(input_data, "data", EmptyList)
         IN IF NotData(Deref(heap, data))
            THEN [result |-> DQNotRun("SKIPPED", "Empty dataset"),
                  heap |-> heap, engine |-> FALSE]
            ELSE LET dq_results == run_dq_checks(Deref(heap, data), config_path)
                 IN IF dq_results.raised
                    THEN [result |-> DQNotRun("FAILED", dq_results.message),
                          heap |-> heap, engine |-> TRUE]
                    ELSE [result |-> [data |-> data,
                                      dq_results |-> dq_results.value,
                                      output_path |-> "/app/output/dq_output.txt",
                                      record_count |-> RecordCount(Deref(heap, data)),
                                      passed |-> DQPassed(dq_results.value),
                                      status |-> "SUCCESS"],
                          heap |-> [heap EXCEPT ![data] =
                                       write_dq_output(heap[data], dq_results.value)],
                          engine |-> TRUE]

-----------------------------------------------------------------------------
(* transformations_handler *)

\* s.upper() and s.lower() for the values of the model
Upper(s) ==
    CASE s = "ann" -> "ANN"
      [] s = "bob" -> "BOB"
      [] s = " ann " -> " ANN "
      [] s = "None" -> "NONE"
      [] OTHER -> s

Lower(s) ==
    CASE s = "ANN" -> "ann"
      [] s = "BOB" -> "bob"
      [] s = "None" -> "none"
      [] OTHER -> s

\* apply_date_format: the source value copied, when it is not empty
apply_date_format(data, source_col, target_col, date_format) ==
    [n \in 1..Len(data) |->
        LET value == Get(data[n], source_col, "")
        IN IF ~FalsyValue(value) THEN Put(data[n], target_col, value) ELSE data[n]]

\* float(v) of the strings of the model that are decimals
Decimals ==
    [t \in {"0", "2", "3", "4", "1.5", "-3"} |->
        CASE t = "0" -> FloatNum(FALSE, 0)
          [] t = "2" -> FloatNum(FALSE, 200)
          [] t = "3" -> FloatNum(FALSE, 300)
          [] t = "4" -> FloatNum(FALSE, 400)
          [] t = "1.5" -> FloatNum(FALSE, 150)
          [] OTHER -> FloatNum(TRUE, 300)]

\* the strings of the model that are digits once '.' and '-' are removed,
\* and that float() does not parse
DigitsNoDecimal == {"2024-01-15", "1.2.3"}

\* float(x) of a number
AsFloat(x) == [neg |-> x.neg, n |-> x.n, d |-> x.d, int |-> FALSE]

\* float(v) if v and str(v).replace('.', '').replace('-', '').isdigit() else 0
BindValue(v) ==
    IF FalsyValue(v) THEN Return(IntNum(0))
    ELSE IF IsNumber(v) THEN Return(AsFloat(Numbers[v]))
    ELSE IF v \in DOMAIN Decimals THEN Return(Decimals[v])
    ELSE IF v \in DigitsNoDecimal THEN Raise("ValueError", "could not convert string to float")
    ELSE Return(IntNum(0))

\* The expressions of the model, parsed: a product, a quotient or a sum of
\* two names; anything else is a syntax error.
ParseExpression(expression) ==
    CASE expression = "price*qty" -> Return([op |-> "*", left |-> "price", right |-> "qty"])
      [] expression = "price/qty" -> Return([op |-> "/", left |-> "price", right |-> "qty"])
      [] expression = "price+qty" -> Return([op |-> "+", left |-> "price", right |-> "qty"])
      [] expression = "total+price" -> Return([op |-> "+", left |-> "total", right |-> "price"])
      [] OTHER -> Raise("SyntaxError", "invalid syntax")

\* the signed numerator of a number
Signed(x) == IF x.neg THEN 0 - x.n ELSE x.n

\* x * y, x / y and x + y of two numbers, as Python computes them on ints
\* and floats
Times(x, y) ==
    [neg |-> (x.neg # y.neg), n |-> x.n * y.n, d |-> x.d * y.d, int |-> x.int /\ y.int]

Over(x, y) ==
    [neg |-> (x.neg # y.neg), n |-> x.n * y.d, d |-> x.d * y.n, int |-> FALSE]

Plus(x, y) ==
    LET sum == Signed(x) * y.d + Signed(y) * x.d
    IN [neg |-> IF sum = 0 THEN x.neg /\ y.neg ELSE sum < 0,
        n |-> IF sum < 0 THEN 0 - sum ELSE sum,
        d |-> x.d * y.d, int |-> x.int /\ y.int]

\* round(result, 2): an int as it is, a float to the nearest hundredth (no
\* float of the model lies half-way between two)
Round2(x) ==
    IF x.int THEN x
    ELSE FloatNum(x.neg, (200 * x.n + x.d) \div (2 * x.d))

\* eval(expression, {"__builtins__": {}}, local_vars) for one row
EvalRow(row, expression) ==
    LET parsed == ParseExpression(expression)
    IN IF \E k \in 1..Len(row) : BindValue(row[k][2]).raised
       THEN Raise("ValueError", "could not convert string to float")
       ELSE IF parsed.raised THEN parsed
       ELSE IF ~HasKey(row, parsed.value.left) \/ ~HasKey(row, parsed.value.right)
       THEN Raise("NameError", "name is not defined")
       ELSE LET x == BindValue(Get(row, parsed.value.left, None)).value
                y == BindValue(Get(row, parsed.value.right, None)).value
            IN CASE parsed.value.op = "*" -> Return(Times(x, y))
                 [] parsed.value.op = "/" ->
                        IF y.n = 0 THEN Raise("ZeroDivisionError", "division by zero")
                        ELSE Return(Over(x, y))
                 [] OTHER -> Return(Plus(x, y))

\* the value of a number written into a record; a float beyond the
\* floats of the model is told apart
Written(x) ==
    IF NumberValue(x) \in DOMAIN Numbers THEN NumberValue(x) ELSE "<float out of the model>"

\* apply_derived_column: the rounded result, or 0 when anything raises
apply_derived_column(data, expression, target_col) ==
    [n \in 1..Len(data) |->
        LET result == EvalRow(data[n], expression)
        IN IF result.raised THEN Put(data[n], target_col, Zero)
           ELSE Put(data[n], target_col, Written(Round2(result.value)))]

\* datetime.strptime(str(value)[:19], '%Y-%m-%d %H:%M:%S') for the strings
\* of the model that it parses
Dates ==
    [t \in {"2024-01-15 10:30:00", "2024-01-15 10:30:00.123"} |->
        [year |-> 2024, month |-> 1, day |-> 15]]

\* apply_date_extract: nothing for an empty source, the part of the date
\* or '' when the date does not parse
apply_date_extract(data, source_col, target_col, extract_part) ==
    [n \in 1..Len(data) |->
        LET value == Get(data[n], source_col, "")
        IN IF FalsyValue(value) THEN data[n]
           ELSE IF Str(value) \in DOMAIN Dates
           THEN CASE extract_part = "year" -> Put(data[n], target_col, NumberValue(IntNum(Dates[Str(value)].year)))
                  [] extract_part = "month" -> Put(data[n], target_col, NumberValue(IntNum(Dates[Str(value)].month)))
                  [] extract_part = "day" -> Put(data[n], target_col, NumberValue(IntNum(Dates[Str(value)].day)))
                  [] OTHER -> data[n]
           ELSE Put(data[n], target_col, "")]

\* apply_string_transform building each record anew from the target column
apply_string_transform_new_rows(data, source_col, target_col, operation) ==
    [n \in 1..Len(data) |->
        << <<target_col, Upper(Str(Get(data[n], source_col, "")))>> >>]

\* apply_string_transform
apply_string_transform(data, source_col, target_col, operation) ==
    [n \in 1..Len(data) |->
        LET value == Str(Get(data[n], source_col, ""))
        IN CASE operation = "uppercase" -> Put(data[n], target_col, Upper(value))
             [] operation = "lowercase" -> Put(data[n], target_col, Lower(value))
             [] operation = "trim" -> Put(data[n], target_col, StripStr(value))
             [] OTHER -> data[n]]

\* one transformation applied to the whole batch; a type that is none of
\* the types of this model leaves the batch as it is
ApplyTransform(data, transform) ==
    LET transform_type == Field(transform, "type", None)
    IN CASE transform_type = "date_format" ->
                apply_date_format(data, Field(transform, "source_column", None),
                                  Field(transform, "target_column", None),
                                  Field(transform, "format", None))
         [] transform_type = "string_transform" ->
                apply_string_transform(data, Field(transform, "source_column", None),
                                       Field(transform, "target_column", None),
                                       Field(transform, "operation", None))
         [] transform_type = "derived_column" ->
                apply_derived_column(data, Field(transform, "expression", None),
                                     Field(transform, "target_column", None))
         [] transform_type = "date_extract" ->
                apply_date_extract(data, Field(transform, "source_column", None),
                                   Field(transform, "target_column", None),
                                   Field(transform, "extract", None))
         [] OTHER -> data

RECURSIVE TransformLoop(_, _, _)
TransformLoop(data, transformations, n) ==
    IF n > Len(transformations) THEN data
    ELSE TransformLoop(ApplyTransform(data, transformations[n]), transformations, n + 1)

run_transformations(data, config_path) ==
    LET config == load_config(config_path)
    IN IF config.raised THEN config
       ELSE Return(TransformLoop(data, Field(config.value, "transformations", <<>>), 1))

\* NotRun without the reason of the stage that did not run
NotRunNoError(status, error) ==
    [data |-> EmptyList, headers |-> <<>>, output_path |-> None, record_count |-> 0,
     status |-> status]

\* the envelope of a stage that did not transform or route
NotRun(status, error) ==
    [data |-> EmptyList, headers |-> <<>>, output_path |-> None, record_count |-> 0,
     status |-> status, error |-> error]

\* process_transformations(config_path, input_data): the rows of the batch
\* object are changed in place, so heap changes under the same object
process_transformations(config_path, input_data, heap) ==
    IF input_data = NoneObj
    THEN [result |-> NotRun("SKIPPED", "No input data provided"),
          heap |-> heap, engine |-> FALSE]
    ELSE LET data == Field(input_data, "data", EmptyList)
         IN IF NotData(Deref(heap, data))
            THEN [result |-> NotRun("SKIPPED", "Empty dataset"),
                  heap |-> heap, engine |-> FALSE]
            ELSE LET transformed_data == run_transformations(Deref(heap, data), config_path)
                 IN IF transformed_data.raised
                    THEN [result |-> NotRun("FAILED", transformed_data.message),
                          heap |-> heap, engine |-> TRUE]
                    ELSE [result |-> [data |-> data,
                                      headers |-> HeadersOf(transformed_data.value),
                                      output_path |-> "/app/output/transformed_output.txt",
                                      record_count |-> RecordCount(transformed_data.value),
                                      status |-> "SUCCESS"],
                          heap |-> [heap EXCEPT ![data] = transformed_data.value],
                          engine |-> TRUE]

-----------------------------------------------------------------------------
(* router_handler *)

\* route_to_destination without the test of the enabled flag
route_to_destination_all(data, destination) == Field(destination, "name", None)

\* route_to_destination: the destination's name, or None when it is disabled
route_to_destination(data, destination) ==
    IF ~Field(destination, "enabled", TRUE) THEN None
    ELSE Field(destination, "name", None)

RECURSIVE RouteLoop(_, _, _, _)
RouteLoop(data, destinations, n, routed_destinations) ==
    IF n > Len(destinations) THEN routed_destinations
    ELSE LET result == route_to_destination(data, destinations[n])
         IN RouteLoop(data, destinations, n + 1,
                      IF ~Falsy(result) THEN Append(routed_destinations, result)
                      ELSE routed_destinations)

\* RouterNotRun reporting every stage that did not route as FAILED
RouterNotRunFailed(status, error) ==
    [data |-> EmptyList, headers |-> <<>>, output_path |-> None, record_count |-> 0,
     destinations_routed |-> <<>>, status |-> "FAILED", error |-> error]

\* the envelope of a router stage that did not route
RouterNotRun(status, error) ==
    [data |-> EmptyList, headers |-> <<>>, output_path |-> None, record_count |-> 0,
     destinations_routed |-> <<>>, status |-> status, error |-> error]

\* process_router with the document load_config gives for config_path (or
\* the error it raises), which is only looked at for a batch with records
RouteWith(config, input_data, heap) ==
    IF input_data = NoneObj
    THEN [result |-> RouterNotRun("SKIPPED", "No input data provided"),
          heap |-> heap, engine |-> FALSE]
    ELSE LET data == Field(input_data, "data", EmptyList)
         IN IF NotData(Deref(heap, data))
            THEN [result |-> RouterNotRun("SKIPPED", "Empty dataset"),
                  heap |-> heap, engine |-> FALSE]
            ELSE IF config.raised
                    THEN [result |-> RouterNotRun("FAILED", config.message),
                          heap |-> heap, engine |-> TRUE]
                    ELSE [result |-> [data |-> data,
                                      headers |-> HeadersOf(Deref(heap, data)),
                                      output_path |-> "/app/output/final_dataset.txt",
                                      record_count |-> RecordCount(Deref(heap, data)),
                                      destinations_routed |->
                                          RouteLoop(Deref(heap, data),
                                                    Field(config.value, "destinations", <<>>),
                                                    1, <<>>),
                                      status |-> "SUCCESS"],
                          heap |-> heap, engine |-> TRUE]

process_router(config_path, input_data, heap) ==
    RouteWith(load_config(config_path), input_data, heap)

-----------------------------------------------------------------------------
(* Bounds and the inputs drawn for join_datasets *)

MaxParent == 2
MaxChild == 3

\* The join key of the drawn joins.
JoinKey == "id"

\* Parent rows: with and without the join key, and one that already has a
\* column named like a prefixed child column.
ParentRows ==
    { << <<"id", "1">>, <<"x", "px">> >>,
      << <<"id", "1">>, <<"x", "px">>, <<"order_x", "po">> >>,
      << <<"id", "2">>, <<"x", "px">> >>,
      << <<"id", "3">>, <<"x", "px">> >>,
      << <<"x", "px">> >> }

\* Child rows: colliding with a parent column (x), not colliding (y), with
\* both a colliding column and one named like its prefixed form, and
\* without the join key.
ChildRows ==
    { << <<"id", "1">>, <<"x", "cx">> >>,
      << <<"id", "1">>, <<"y", "cy">> >>,
      << <<"id", "2">>, <<"x", "cx">>, <<"order_x", "co">> >>,
      << <<"id", "2">>, <<"y", "cy">> >>,
      << <<"y", "cy">> >> }

SeqsUpTo(S, n) == UNION { [1..m -> S] : m \in 0..n }

\* the join variables while main runs
JoinIdle ==
    /\ parent_data = <<>>
    /\ child_data = <<>>
    /\ join_type = "left"
    /\ joined = NoneObj
    /\ jpc = "idle"

\* the variables of the other operations while they are not exercised
IngestIdle == ing_config = NoneObj /\ ingested = NoneObj /\ ipc = "idle"

ReadIdle == file_lines = <<>> /\ with_header = TRUE /\ read_out = NoneObj /\ rpc = "idle"

DQIdle ==
    /\ dq_data = <<>>
    /\ rules = <<>>
    /\ found = NoneObj
    /\ engine_out = NoneObj
    /\ dqpc = "idle"

TransformIdle == tr_data = <<>> /\ tr_specs = <<>> /\ tr_steps = <<>> /\ tpc = "idle"

RouteIdle == rt_data = <<>> /\ rt_dests = <<>> /\ routed = NoneObj /\ rtpc = "idle"

\* main's variables while only join_datasets is exercised
MainIdle ==
    /\ components = <<>>
    /\ i = 1
    /\ pipeline_data = NoneObj
    /\ results = <<>>
    /\ all_success = TRUE
    /\ failed_component = None
    /\ pc = "idle"
    /\ ret = NoneObj
    /\ summary = <<>>
    /\ calls = <<>>
    /\ batches = <<>>

InitJoin ==
    /\ parent_data \in SeqsUpTo(ParentRows, MaxParent)
    /\ child_data \in SeqsUpTo(ChildRows, MaxChild)
    /\ join_type \in {"left", "inner"}
    /\ joined = NoneObj
    /\ jpc = "ready"
    /\ MainIdle
    /\ IngestIdle /\ ReadIdle /\ DQIdle /\ TransformIdle /\ RouteIdle

\* joined_data = join_datasets(parent_data, child_data, join_key, join_type)
DoJoin ==
    /\ jpc = "ready"
    /\ joined' = join_datasets(parent_data, child_data, JoinKey, join_type)
    /\ jpc' = "done"
    /\ UNCHANGED <<parent_data, child_data, join_type, mainVars, unitVars>>

NextJoin == DoJoin

SpecJoin == InitJoin /\ [][NextJoin]_vars

-----------------------------------------------------------------------------
(* The inputs drawn for process_ingestion *)

MaxRels == 2

\* sources of the drawn configs: two files with records and one with a
\* header only
IngestSources ==
    << [name |-> "customers", path |-> "/app/data/customers.txt", delimiter |-> "|"],
       [name |-> "orders", path |-> "/app/data/orders.txt", delimiter |-> "|"],
       [name |-> "empty", path |-> "/app/data/empty.txt", delimiter |-> "|"] >>

\* relationships of the drawn configs: parent and child name a source, an
\* earlier or a later relationship, or the relationship itself
RelEntries ==
    { [name |-> n, parent |-> p, child |-> c, join_key |-> "id", join_type |-> t] :
        n \in {"r1", "r2"}, p \in {"customers", "empty", "r1", "r2"},
        c \in {"orders", "empty", "r1"}, t \in {"left", "inner"} }

InitIngest ==
    /\ \E rels \in SeqsUpTo(RelEntries, MaxRels) :
          ing_config = [sources |-> IngestSources, relationships |-> rels]
    /\ ingested = NoneObj
    /\ ipc = "ready"
    /\ JoinIdle /\ MainIdle /\ ReadIdle /\ DQIdle /\ TransformIdle /\ RouteIdle

\* process_ingestion on the config file whose parsed content is ing_config
DoIngest ==
    /\ ipc = "ready"
    /\ ingested' = IngestConfig(ing_config, <<>>)
    /\ ipc' = "done"
    /\ UNCHANGED <<ing_config, joinVars, mainVars, readVars, dqVars, trVars, rtVars>>

NextIngest == DoIngest

SpecIngest == InitIngest /\ [][NextIngest]_vars

-----------------------------------------------------------------------------
(* The inputs drawn for read_delimited_file *)

MaxLines == 3

\* the lines a drawn file is made of: two or three fields, one field, one
\* field too many, padded with blanks, empty and blank
FileLines ==
    { <<"id", "|", "name">>,
      <<"1", "|", "ann">>,
      <<"2">>,
      <<"3", "|", "bob", "|", "x">>,
      <<" ", "4", "|", "cy", " ">>,
      <<>>,
      <<" ">> }

InitRead ==
    /\ file_lines \in SeqsUpTo(FileLines, MaxLines)
    /\ with_header \in BOOLEAN
    /\ read_out = NoneObj
    /\ rpc = "ready"
    /\ JoinIdle /\ MainIdle /\ IngestIdle /\ DQIdle /\ TransformIdle /\ RouteIdle

\* read_delimited_file on an existing file whose lines are file_lines
DoRead ==
    /\ rpc = "ready"
    /\ read_out' = ReadLines(file_lines, "|", with_header, 1, <<>>, <<>>)
    /\ rpc' = "done"
    /\ UNCHANGED <<file_lines, with_header, joinVars, mainVars, ingestVars, dqVars, trVars, rtVars>>

NextRead == DoRead

SpecRead == InitRead /\ [][NextRead]_vars

-----------------------------------------------------------------------------
(* The inputs drawn for the four checks of dq_check_handler *)

MaxRows == 3

\* rows for null_check: x absent, null, empty, blank, filled, padded
NullRows ==
    { <<>>, << <<"x", None>> >>, << <<"x", "">> >>, << <<"x", " ">> >>,
      << <<"x", "ann">> >>, << <<"x", " ann ">>, <<"y", "">> >> }

\* rows for duplicate_check: equal and different keys on a and on (a, b), a
\* column absent, and a null next to the string 'None'
DupRows ==
    { << <<"a", "1">>, <<"b", "ann">> >>, << <<"a", "1">>, <<"b", "bob">> >>,
      << <<"a", "2">>, <<"b", "ann">> >>, << <<"a", "1">> >>,
      << <<"a", None>>, <<"b", "ann">> >>, << <<"a", "None">>, <<"b", "ann">> >> }

\* rows for range_check: x absent, null, empty, blank, numeric strings, a
\* string that is no number, and the number 0 of a derived column
RangeRows ==
    { <<>>, << <<"x", None>> >>, << <<"x", "">> >>, << <<"x", " ">> >>,
      << <<"x", "3">> >>, << <<"x", "5">> >>, << <<"x", "7">> >>, << <<"x", "10">> >>,
      << <<"x", "abc">> >>, << <<"x", Zero>> >> }

\* rows for format_check: x absent, null, empty, and strings that the
\* patterns match wholly, at the start only, or not at all
FormatRows ==
    { <<>>, << <<"x", None>> >>, << <<"x", "">> >>, << <<"x", "ann">> >>,
      << <<"x", "ann1">> >>, << <<"x", "1ann">> >>, << <<"x", "12">> >> }

CheckRules ==
    { [rule_name |-> "null_check", columns |-> c] : c \in {<<>>, <<"x">>, <<"x", "y">>} }
    \cup { [rule_name |-> "duplicate_check", columns |-> c] : c \in {<<"a">>, <<"a", "b">>} }
    \cup { [rule_name |-> "range_check", column |-> "x", min_value |-> lo, max_value |-> hi] :
              lo \in {NoNumber, Number(5), Number(10)}, hi \in {NoNumber, Number(5), Number(10)} }
    \cup { [rule_name |-> "format_check", column |-> "x", pattern |-> p] :
              p \in {"[a-z]+", "^[a-z]+$", "[0-9]", "[a-z]+[0-9]$"} }

RowsFor(rule) ==
    CASE rule.rule_name = "null_check" -> NullRows
      [] rule.rule_name = "duplicate_check" -> DupRows
      [] rule.rule_name = "range_check" -> RangeRows
      [] OTHER -> FormatRows

InitCheck ==
    /\ \E rule \in CheckRules :
          /\ rules = <<rule>>
          /\ dq_data \in SeqsUpTo(RowsFor(rule), MaxRows)
    /\ found = NoneObj
    /\ engine_out = NoneObj
    /\ dqpc = "ready"
    /\ JoinIdle /\ MainIdle /\ IngestIdle /\ ReadIdle /\ TransformIdle /\ RouteIdle

RunNullCheck ==
    /\ dqpc = "ready" /\ rules[1].rule_name = "null_check"
    /\ found' = check_null_values(dq_data, rules[1].columns)
    /\ dqpc' = "checked"
    /\ UNCHANGED <<dq_data, rules, engine_out, joinVars, mainVars, ingestVars, readVars, trVars, rtVars>>

RunDuplicateCheck ==
    /\ dqpc = "ready" /\ rules[1].rule_name = "duplicate_check"
    /\ found' = check_duplicates(dq_data, rules[1].columns)
    /\ dqpc' = "checked"
    /\ UNCHANGED <<dq_data, rules, engine_out, joinVars, mainVars, ingestVars, readVars, trVars, rtVars>>

RunRangeCheck ==
    /\ dqpc = "ready" /\ rules[1].rule_name = "range_check"
    /\ found' = check_range(dq_data, rules[1].column, rules[1].min_value, rules[1].max_value)
    /\ dqpc' = "checked"
    /\ UNCHANGED <<dq_data, rules, engine_out, joinVars, mainVars, ingestVars, readVars, trVars, rtVars>>

RunFormatCheck ==
    /\ dqpc = "ready" /\ rules[1].rule_name = "format_check"
    /\ found' = check_pattern(dq_data, rules[1].column, rules[1].pattern)
    /\ dqpc' = "checked"
    /\ UNCHANGED <<dq_data, rules, engine_out, joinVars, mainVars, ingestVars, readVars, trVars, rtVars>>

NextCheck == RunNullCheck \/ RunDuplicateCheck \/ RunRangeCheck \/ RunFormatCheck

SpecCheck == InitCheck /\ [][NextCheck]_vars

-----------------------------------------------------------------------------
(* The inputs drawn for run_dq_checks *)

MaxRules == 2

EngineRows ==
    { << <<"x", "ann">> >>, << <<"x", "">> >>, << <<"x", "3">> >>, << <<"x", None>> >> }

\* rules of the four kinds with action fail, warn, none and another word,
\* and a rule of an unknown kind
EngineRules ==
    { [rule_name |-> "null_check", columns |-> <<"x">>, action |-> "fail"],
      [rule_name |-> "null_check", columns |-> <<"x">>, action |-> "warn"],
      [rule_name |-> "duplicate_check", columns |-> <<"x">>],
      [rule_name |-> "range_check", column |-> "x", min_value |-> Number(5), action |-> "fail"],
      [rule_name |-> "format_check", column |-> "x", pattern |-> "[a-z]+", action |-> "log"],
      [rule_name |-> "custom_check", action |-> "fail"] }

InitDQ ==
    /\ rules \in SeqsUpTo(EngineRules, MaxRules)
    /\ dq_data \in SeqsUpTo(EngineRows, MaxRows)
    /\ found = NoneObj
    /\ engine_out = NoneObj
    /\ dqpc = "ready"
    /\ JoinIdle /\ MainIdle /\ IngestIdle /\ ReadIdle /\ TransformIdle /\ RouteIdle

\* run_dq_checks on a config file whose dq_rules are rules
RunEngine ==
    /\ dqpc = "ready"
    /\ engine_out' = RunRules(dq_data, [dq_rules |-> rules])
    /\ dqpc' = "done"
    /\ UNCHANGED <<dq_data, rules, found, joinVars, mainVars, ingestVars, readVars, trVars, rtVars>>

NextDQ == RunEngine

SpecDQ == InitDQ /\ [][NextDQ]_vars

-----------------------------------------------------------------------------
(* The inputs drawn for run_transformations *)

MaxBatch == 2
MaxSpecs == 2

\* rows with a name, a date d, a price and a quantity: a full date and
\* decimals, an empty date, a date without a time, a null name with a
\* quantity of zero, and a row that has a price only, which is no number
TransformRows ==
    { << <<"name", "ann">>, <<"d", "2024-01-15 10:30:00">>, <<"price", "4">>, <<"qty", "3">> >>,
      << <<"name", " ann ">>, <<"d", "">>, <<"price", "1.5">>, <<"qty", "2">> >>,
      << <<"name", "bob">>, <<"d", "2024-01-15">>, <<"price", "4">>, <<"qty", "2">> >>,
      << <<"name", None>>, <<"d", "abc">>, <<"price", "-3">>, <<"qty", "0">> >>,
      << <<"price", "abc">> >> }

\* transformations of the four types; some read or overwrite the target of
\* another, and one expression is malformed
TransformSpecs ==
    { [type |-> "date_format", source_column |-> "d", target_column |-> "y", format |-> "%Y-%m-%d"],
      [type |-> "date_format", source_column |-> "y", target_column |-> "z", format |-> "%Y-%m-%d"],
      [type |-> "string_transform", source_column |-> "name", target_column |-> "y",
       operation |-> "uppercase"],
      [type |-> "string_transform", source_column |-> "name", target_column |-> "name",
       operation |-> "trim"],
      [type |-> "date_extract", source_column |-> "d", target_column |-> "y", extract |-> "year"],
      [type |-> "date_extract", source_column |-> "d", target_column |-> "z", extract |-> "day"],
      [type |-> "derived_column", expression |-> "price*qty", target_column |-> "total"],
      [type |-> "derived_column", expression |-> "price/qty", target_column |-> "total"],
      [type |-> "derived_column", expression |-> "total+price", target_column |-> "total"],
      [type |-> "derived_column", expression |-> "price*", target_column |-> "total"] }

InitTransform ==
    /\ tr_data \in SeqsUpTo(TransformRows, MaxBatch)
    /\ tr_specs \in SeqsUpTo(TransformSpecs, MaxSpecs)
    /\ tr_steps = <<>>
    /\ tpc = "ready"
    /\ JoinIdle /\ MainIdle /\ IngestIdle /\ ReadIdle /\ DQIdle /\ RouteIdle

\* run_transformations on a config file whose transformations are
\* tr_specs: tr_steps[n] is `data` at the end of the n-th iteration
DoTransform ==
    /\ tpc = "ready"
    /\ tr_steps' = [n \in 1..Len(tr_specs) |-> TransformLoop(tr_data, SubSeq(tr_specs, 1, n), 1)]
    /\ tpc' = "done"
    /\ UNCHANGED <<tr_data, tr_specs, joinVars, mainVars, ingestVars, readVars, dqVars, rtVars>>

NextTransform == DoTransform

SpecTransform == InitTransform /\ [][NextTransform]_vars

-----------------------------------------------------------------------------
(* The inputs drawn for process_router *)

MaxDests == 3

\* records of a batch that reaches the router
RouteRows ==
    { << <<"id", "1">>, <<"name", "ann">> >>, << <<"id", "2">> >> }

\* destinations of the three types, each enabled, disabled, or without the
\* flag; two of them share a name
Destinations ==
    { [name |-> "s3_archive", type |-> "s3", enabled |-> TRUE],
      [name |-> "s3_archive", type |-> "s3", enabled |-> FALSE],
      [name |-> "warehouse", type |-> "redshift", enabled |-> TRUE],
      [name |-> "warehouse", type |-> "redshift", enabled |-> FALSE],
      [name |-> "warehouse", type |-> "redshift"],
      [name |-> "events", type |-> "kinesis"] }

InitRoute ==
    /\ rt_data \in SeqsUpTo(RouteRows, MaxBatch)
    /\ rt_dests \in SeqsUpTo(Destinations, MaxDests)
    /\ routed = NoneObj
    /\ rtpc = "ready"
    /\ JoinIdle /\ MainIdle /\ IngestIdle /\ ReadIdle /\ DQIdle /\ TransformIdle

\* process_router on a config file whose destinations are rt_dests, for
\* the envelope of a stage that returned the batch rt_data
DoRoute ==
    /\ rtpc = "ready"
    /\ routed' = RouteWith(Return([destinations |-> rt_dests]),
                           [data |-> IF rt_data = <<>> THEN EmptyList ELSE 1,
                            record_count |-> Len(rt_data), status |-> "SUCCESS"],
                           <<rt_data>>)
    /\ rtpc' = "done"
    /\ UNCHANGED <<rt_data, rt_dests, joinVars, mainVars, ingestVars, readVars, dqVars, trVars>>

NextRoute == DoRoute

SpecRoute == InitRoute /\ [][NextRoute]_vars

-----------------------------------------------------------------------------
(* controller.execute_component and controller.main *)

MaxComponents == 4

\* The component entries a pipeline config may list: every handler with a
\* config that succeeds and one that does not exist, an unknown type, and
\* entries that lack component_type or config_file_name.
ComponentEntries ==
    { [component_type |-> "INGESTOR", config_file_name |-> "/app/config/INGESTER_CONFIG.yaml"],
      [component_type |-> "INGESTOR", config_file_name |-> "/app/config/INGESTER_NOREL.yaml"],
      [component_type |-> "INGESTOR", config_file_name |-> "/app/config/INGESTER_INNER.yaml"],
      [component_type |-> "INGESTOR", config_file_name |-> "/app/config/MISSING.yaml"],
      [component_type |-> "DQ-CHECKER", config_file_name |-> "/app/config/DQ_CHECKS_CONFIG.yaml"],
      [component_type |-> "DQ-CHECKER", config_file_name |-> "/app/config/DQ_WARN_CONFIG.yaml"],
      [component_type |-> "DQ-CHECKER", config_file_name |-> "/app/config/MISSING.yaml"],
      [component_type |-> "TRANSFORMER", config_file_name |-> "/app/config/TRANSFORMATIONS_CONFIG.yaml"],
      [component_type |-> "TRANSFORMER", config_file_name |-> "/app/config/MISSING.yaml"],
      [component_type |-> "ROUTER", config_file_name |-> "/app/config/ROUTER_CONFIG.yaml"],
      [component_type |-> "ROUTER", config_file_name |-> "/app/config/MISSING.yaml"],
      [component_type |-> "ARCHIVER", config_file_name |-> "/app/config/ARCHIVER_CONFIG.yaml"],
      [config_file_name |-> "/app/config/ROUTER_CONFIG.yaml"],
      [component_type |-> "ROUTER"] }

\* the keys of component_handlers
HandlerTypes == {"INGESTOR", "DQ-CHECKER", "TRANSFORMER", "ROUTER"}

\* handler(config_file_path, input_data) through wrapper4actions: the
\* ingestion trigger does not pass input_data on
CallHandler(component_type, config_file_path, input_data, heap) ==
    CASE component_type = "INGESTOR" ->
            LET out == process_ingestion(config_file_path, heap)
            IN [result |-> out.result, heap |-> out.heap, engine |-> TRUE]
      [] component_type = "DQ-CHECKER" -> process_dq_checks(config_file_path, input_data, heap)
      [] component_type = "TRANSFORMER" ->
            process_transformations(config_file_path, input_data, heap)
      [] component_type = "ROUTER" -> process_router(config_file_path, input_data, heap)

\* whether execute_component raises PipelineError for what the handler returned
HandlerFailedNever(result) == FALSE

HandlerFailed(result) == Field(result, "status", None) = "FAILED"

\* execute_component after the handler returned out: PipelineError with
\* its str(e) when the envelope says FAILED, the envelope otherwise
CheckResult(component_type, out) ==
    IF HandlerFailed(out.result)
    THEN [raised |-> TRUE, handler |-> TRUE, engine |-> out.engine,
          returned |-> out.result, heap |-> out.heap,
          error |-> ErrStr(component_type,
                           component_type \o " failed: "
                           \o Field(out.result, "error", "Unknown error"))]
    ELSE [raised |-> FALSE, handler |-> TRUE, engine |-> out.engine,
          returned |-> out.result, heap |-> out.heap, error |-> None]

\* execute_component raising PipelineError for a type that has no handler
execute_component_strict(component_type, config_file_path, input_data, heap) ==
    IF component_type \in HandlerTypes
    THEN CheckResult(component_type,
                     CallHandler(component_type, config_file_path, input_data, heap))
    ELSE [raised |-> TRUE, handler |-> FALSE, engine |-> FALSE,
          returned |-> NoneObj, heap |-> heap,
          error |-> ErrStr(component_type, "Unknown component type: " \o component_type)]

\* execute_component: what the handler returned (returned), whether
\* PipelineError was raised and with which str(e), or the input handed back
\* when the type has no handler
execute_component(component_type, config_file_path, input_data, heap) ==
    IF component_type \in HandlerTypes
    THEN CheckResult(component_type,
                     CallHandler(component_type, config_file_path, input_data, heap))
    ELSE [raised |-> FALSE, handler |-> FALSE, engine |-> FALSE,
          returned |-> input_data, heap |-> heap, error |-> None]

Init ==
    /\ components \in SeqsUpTo(ComponentEntries, MaxComponents)
    /\ i = 1
    /\ pipeline_data = NoneObj
    /\ results = <<>>
    /\ all_success = TRUE
    /\ failed_component = None
    /\ pc = "start"
    /\ ret = NoneObj
    /\ summary = <<>>
    /\ calls = <<>>
    /\ batches = <<>>
    /\ JoinIdle
    /\ IngestIdle /\ ReadIdle /\ DQIdle /\ TransformIdle /\ RouteIdle

\* the except ConfigError branch returning what the loop had stored
ConfigErrorReturnStored(error) == [results |-> results, status |-> "FAILED", error |-> error]

\* the return of main's except ConfigError branch
ConfigErrorReturn(error) == [results |-> <<>>, status |-> "FAILED", error |-> error]

\* main up to the loop: no components is a ConfigError
StartPipeline ==
    /\ pc = "start"
    /\ IF components = <<>>
       THEN /\ pc' = "config_error"
            /\ ret' = ConfigErrorReturn(
                          ErrStr("CONFIG", "No components defined in execution_pipeline"))
       ELSE /\ pc' = "loop"
            /\ ret' = ret
    /\ UNCHANGED <<components, i, pipeline_data, results, all_success, failed_component,
                   summary, calls, batches, joinVars, unitVars>>

\* whether the entry the loop is at has both of its keys
ValidEntry(component) ==
    /\ ~Falsy(Field(component, "component_type", None))
    /\ ~Falsy(Field(component, "config_file_name", None))

\* an entry without component_type or config_file_name: ConfigError leaves
\* the loop and main returns from its except branch
InvalidComponent ==
    /\ pc = "loop"
    /\ ~ValidEntry(components[i])
    /\ pc' = "config_error"
    /\ ret' = ConfigErrorReturn(
                  ErrStr("CONFIG", "Invalid component configuration at index "
                                   \o ToString(i - 1)
                                   \o ": missing component_type or config_file_name"))
    /\ UNCHANGED <<components, i, pipeline_data, results, all_success, failed_component,
                   summary, calls, batches, joinVars, unitVars>>

\* where the loop goes after component i: the summary after a failure
\* (break) or after the last component, the next component otherwise
AfterStage(raised) == IF raised \/ i = Len(components) THEN "summary" ELSE "loop"

\* pipeline_data = result
NextInputStale(result, previous) == previous

NextInput(result, previous) == result

\* one iteration of main's loop for a valid entry
RunComponent ==
    \E out \in { execute_component(components[i].component_type,
                                   components[i].config_file_name,
                                   pipeline_data, batches) } :
       /\ calls' = Append(calls,
                     [index |-> i, component_type |-> components[i].component_type,
                      input |-> pipeline_data,
                      input_batch |-> IF pipeline_data = NoneObj THEN <<>>
                                      ELSE Deref(batches, Field(pipeline_data, "data", EmptyList)),
                      handler |-> out.handler, engine |-> out.engine,
                      raised |-> out.raised, returned |-> out.returned,
                      returned_batch |-> IF out.returned = NoneObj THEN <<>>
                                         ELSE Deref(out.heap, Field(out.returned, "data", EmptyList))])
       /\ batches' = out.heap
       /\ IF out.raised
          THEN /\ results' = Put(results, components[i].component_type,
                                 [status |-> "FAILED", error |-> out.error])
               /\ all_success' = FALSE
               /\ failed_component' = components[i].component_type
               /\ UNCHANGED pipeline_data
          ELSE /\ results' = Put(results, components[i].component_type, out.returned)
               /\ pipeline_data' = NextInput(out.returned, pipeline_data)
               /\ UNCHANGED <<all_success, failed_component>>
       /\ pc' = AfterStage(out.raised)
       /\ i' = IF AfterStage(out.raised) = "loop" THEN i + 1 ELSE i
       /\ UNCHANGED <<components, ret, summary, joinVars, unitVars>>

AtValid(component_type) ==
    /\ pc = "loop"
    /\ ValidEntry(components[i])
    /\ components[i].component_type = component_type

ExecuteIngestor == AtValid("INGESTOR") /\ RunComponent

ExecuteDQChecker == AtValid("DQ-CHECKER") /\ RunComponent

ExecuteTransformer == AtValid("TRANSFORMER") /\ RunComponent

ExecuteRouter == AtValid("ROUTER") /\ RunComponent

ExecuteUnknown ==
    /\ pc = "loop"
    /\ ValidEntry(components[i])
    /\ components[i].component_type \notin HandlerTypes
    /\ RunComponent

\* the status printed for one entry of results
SummaryStatusPlain(comp_type, result) == Field(result, "status", "SUCCESS")

SummaryStatus(comp_type, result) ==
    IF comp_type = "DQ-CHECKER" /\ "passed" \in DOMAIN result /\ result.passed = FALSE
    THEN "COMPLETED WITH WARNINGS"
    ELSE Field(result, "status", "SUCCESS")

\* the lines of the final summary: one per entry of results that is not None
RECURSIVE SummaryLines(_, _)
SummaryLines(res, n) ==
    IF n > Len(res) THEN <<>>
    ELSE (IF res[n][2] # NoneObj
          THEN << <<res[n][1], SummaryStatus(res[n][1], res[n][2])>> >>
          ELSE <<>>)
         \o SummaryLines(res, n + 1)

\* the verdict main returns
Verdict(success) == IF success THEN "SUCCESS" ELSE "FAILED"

\* main after the loop: the summary and the return value
Finish ==
    /\ pc = "summary"
    /\ summary' = SummaryLines(results, 1)
    /\ ret' = [results |-> results, status |-> Verdict(all_success),
               failed_component |-> failed_component]
    /\ pc' = "done"
    /\ UNCHANGED <<components, i, pipeline_data, results, all_success, failed_component,
                   calls, batches, joinVars, unitVars>>

Next ==
    \/ StartPipeline
    \/ InvalidComponent
    \/ ExecuteIngestor
    \/ ExecuteDQChecker
    \/ ExecuteTransformer
    \/ ExecuteRouter
    \/ ExecuteUnknown
    \/ Finish

Spec == Init /\ [][Next]_vars

-----------------------------------------------------------------------------
(* Claims about the controller and the envelopes, checked under Spec *)

Stages == 1..Len(calls)

\* the stages whose component type has a handler
HandlerStages == { k \in Stages : calls[k].handler }

\* stage k's handler returned an envelope with status FAILED (the handlers
\* catch every exception themselves, so this is how a stage fails)
StageFailed(k) == calls[k].handler /\ calls[k].returned.status = "FAILED"

\* main returned from its loop (not from its ConfigError branch)
Returned == pc = "done"

\* C1: when the handler of stage k returns FAILED, no later stage is
\* started, the run is FAILED, failed_component is stage k's type and
\* results holds FAILED for that type; when no stage fails, the run that
\* returns from the loop is SUCCESS with failed_component null.
C1_FailFast ==
    /\ \A k \in Stages :
          StageFailed(k) =>
              /\ k = Len(calls)
              /\ pc \in {"summary", "done"}
              /\ ~all_success
              /\ failed_component = calls[k].component_type
              /\ Get(results, calls[k].component_type, NoneObj).status = "FAILED"
              /\ Returned =>
                    /\ ret.status = "FAILED"
                    /\ ret.failed_component = calls[k].component_type
                    /\ Get(ret.results, calls[k].component_type, NoneObj).status = "FAILED"
    /\ (Returned /\ \A k \in Stages : ~StageFailed(k)) =>
          /\ ret.status = "SUCCESS"
          /\ ret.failed_component = None

\* C1 witness: stage 2 of 4 returned FAILED and main returned with only two
\* stages started.
C1_Witness ==
    /\ Returned
    /\ Len(components) = 4
    /\ Len(calls) = 2
    /\ StageFailed(2)
    /\ ret.status = "FAILED"

\* a DQ stage that ran its rules on a non-empty batch and counted failures
DQCountedFailures(k) ==
    /\ calls[k].component_type = "DQ-CHECKER"
    /\ calls[k].input_batch # <<>>
    /\ calls[k].returned.dq_results # NoneObj
    /\ calls[k].returned.dq_results.total_failures > 0

\* C2: a DQ stage on a non-empty batch with total_failures > 0 is a hard
\* failure: the pipeline halts at DQ-CHECKER, no later stage is started and
\* the run is FAILED.
C2_DQHardFailure ==
    \A k \in Stages :
        DQCountedFailures(k) =>
            /\ calls[k].raised
            /\ k = Len(calls)
            /\ Returned => ret.status = "FAILED" /\ ret.failed_component = "DQ-CHECKER"

\* stage k received an envelope whose batch is empty
EmptyInput(k) == calls[k].input # NoneObj /\ calls[k].input_batch = <<>>

\* stage k ended SKIPPED and its engine was not invoked
Skipped(k) ==
    /\ ~calls[k].engine
    /\ calls[k].returned # NoneObj
    /\ calls[k].returned.status = "SKIPPED"

\* C3 as stated: every stage that receives an envelope with an empty batch
\* is SKIPPED without invoking its engine, hands its SKIPPED envelope to the
\* next stage, and every later stage is SKIPPED as well.
C3_SkipPropagationAnyStage ==
    \A k \in Stages :
        EmptyInput(k) =>
            /\ Skipped(k)
            /\ \A m \in Stages : m > k => Skipped(m) /\ calls[m].input = calls[m - 1].returned

\* the stage types whose handler looks at its input
DependentTypes == {"DQ-CHECKER", "TRANSFORMER", "ROUTER"}

\* C3 amended: a DQ-CHECKER, TRANSFORMER or ROUTER stage that receives an
\* envelope with an empty batch is SKIPPED without invoking its engine and
\* hands its SKIPPED envelope to the next stage; every later stage is
\* SKIPPED as well up to the next INGESTOR stage, which ignores its input
\* and runs its engine.
C3_SkipPropagation ==
    \A k \in Stages :
        (EmptyInput(k) /\ calls[k].component_type \in DependentTypes) =>
            /\ Skipped(k)
            /\ ~calls[k].raised
            /\ \A m \in Stages :
                  (m > k /\ \A n \in (k + 1)..m : calls[n].component_type # "INGESTOR") =>
                        Skipped(m) /\ calls[m].input = calls[m - 1].returned
            /\ \A m \in Stages :
                  (m > k /\ calls[m].component_type = "INGESTOR") => calls[m].engine

\* C3 witness: an ingestion that returned SUCCESS with an empty batch,
\* followed by three stages that all ended SKIPPED.
C3_Witness ==
    /\ Returned
    /\ Len(calls) = 4
    /\ calls[1].component_type = "INGESTOR"
    /\ calls[1].returned.status = "SUCCESS"
    /\ \A k \in 2..4 : calls[k].handler /\ EmptyInput(k) /\ Skipped(k)

\* C4: every SKIPPED or FAILED envelope a handler returned carries an empty
\* batch and record_count 0, and in every envelope record_count is the
\* length of the batch.
C4_EnvelopeBatch ==
    \A k \in HandlerStages :
        /\ calls[k].returned.status \in {"SKIPPED", "FAILED"} =>
              calls[k].returned_batch = <<>> /\ calls[k].returned.record_count = 0
        /\ calls[k].returned.record_count = Len(calls[k].returned_batch)

\* C4 witness: one run in which handlers returned a SUCCESS envelope with
\* three records, a SKIPPED envelope and a FAILED envelope.
C4_Witness ==
    /\ \E k \in HandlerStages :
          calls[k].returned.status = "SUCCESS" /\ calls[k].returned.record_count = 3
    /\ \E k \in HandlerStages : calls[k].returned.status = "SKIPPED"
    /\ \E k \in HandlerStages : calls[k].returned.status = "FAILED"

\* C5 as stated: an envelope has an error field exactly when it is FAILED.
C5_ErrorIffFailed ==
    \A k \in HandlerStages :
        ("error" \in DOMAIN calls[k].returned) <=> (calls[k].returned.status = "FAILED")

\* C5 amended: an envelope has an error field exactly when it is FAILED or
\* SKIPPED; SUCCESS envelopes carry none.
C5_ErrorIffNotSuccess ==
    \A k \in HandlerStages :
        ("error" \in DOMAIN calls[k].returned)
            <=> (calls[k].returned.status \in {"FAILED", "SKIPPED"})

\* C5 witness: a SKIPPED envelope with an error field, a FAILED envelope
\* with one and a SUCCESS envelope without.
C5_Witness ==
    /\ \E k \in HandlerStages :
          calls[k].returned.status = "SKIPPED" /\ calls[k].returned.error = "Empty dataset"
    /\ \E k \in HandlerStages :
          calls[k].returned.status = "FAILED" /\ "error" \in DOMAIN calls[k].returned
    /\ \E k \in HandlerStages :
          calls[k].returned.status = "SUCCESS" /\ "error" \notin DOMAIN calls[k].returned

\* C6: the stages are started one at a time in the order of the components
\* list, each at most once; the first receives no envelope; stage k+1 is
\* started only when stage k did not fail, and receives exactly the envelope
\* stage k returned, with the batch as stage k left it.
C6_OrderAndHandOff ==
    /\ Len(calls) <= Len(components)
    /\ \A k \in Stages :
          /\ calls[k].index = k
          /\ calls[k].component_type = components[k].component_type
          /\ k = 1 => calls[k].input = NoneObj
          /\ k > 1 =>
                /\ ~StageFailed(k - 1)
                /\ calls[k].input = calls[k - 1].returned
                /\ calls[k].input_batch = calls[k - 1].returned_batch
    /\ pc = "loop" => i = Len(calls) + 1 /\ (i > 1 => pipeline_data = calls[i - 1].returned)

\* C6 witness: four stages with handlers ran to the end, each on the
\* three-record batch of the one before.
C6_Witness ==
    /\ Returned
    /\ Len(calls) = 4
    /\ \A k \in Stages : calls[k].handler /\ calls[k].returned.record_count = 3

\* a DQ stage that reported passed = false and did not fail
DQNotPassed(k) ==
    /\ calls[k].component_type = "DQ-CHECKER"
    /\ ~StageFailed(k)
    /\ calls[k].returned.passed = FALSE

\* the summary line of a component type
HasLine(comp_type, status) == \E n \in 1..Len(summary) : summary[n] = <<comp_type, status>>

\* C7: a DQ stage that reports passed = false without failing does not halt
\* the run: the next stage is started on its envelope and batch, the
\* summary labels the DQ entry of results COMPLETED WITH WARNINGS and not
\* FAILED, and the run is SUCCESS unless some stage fails.
C7_DQFindingsAreWarnings ==
    \A k \in Stages :
        DQNotPassed(k) =>
            /\ ~calls[k].raised
            /\ k < Len(calls) =>
                  /\ calls[k + 1].input = calls[k].returned
                  /\ calls[k + 1].input_batch = calls[k].returned_batch
            /\ (k = Len(calls) /\ k < Len(components)) =>
                  \/ pc = "loop" /\ i = k + 1 /\ pipeline_data = calls[k].returned
                  \/ pc = "config_error"
            /\ (Returned /\ Get(results, "DQ-CHECKER", NoneObj) = calls[k].returned) =>
                  /\ HasLine("DQ-CHECKER", "COMPLETED WITH WARNINGS")
                  /\ ~HasLine("DQ-CHECKER", "FAILED")
            /\ (Returned /\ \A m \in Stages : ~StageFailed(m)) => ret.status = "SUCCESS"

\* C7 witness: ingestion, a DQ stage that counted failures, transformation
\* and routing all ran on the three records, and main returned SUCCESS with
\* the DQ line COMPLETED WITH WARNINGS.
C7_Witness ==
    /\ Returned
    /\ Len(calls) = 4
    /\ DQCountedFailures(2)
    /\ DQNotPassed(2)
    /\ calls[3].component_type = "TRANSFORMER" /\ calls[3].returned.status = "SUCCESS"
    /\ calls[4].component_type = "ROUTER" /\ calls[4].returned.record_count = 3
    /\ ret.status = "SUCCESS"
    /\ HasLine("DQ-CHECKER", "COMPLETED WITH WARNINGS")

-----------------------------------------------------------------------------
(* Claims about join_datasets, checked under SpecJoin *)

\* the join-key value of a row, as row.get(join_key) gives it
KeyOf(row) == Get(row, JoinKey, None)

\* the positions of the child records sharing the join-key value of parent n
MatchIdx(n) == { q \in 1..Len(child_data) : KeyOf(child_data[q]) = KeyOf(parent_data[n]) }

\* M for parent n
MatchCount(n) == Cardinality(MatchIdx(n))

\* the position in child_data of the j-th child matching parent n
NthMatch(n, j) ==
    CHOOSE q \in MatchIdx(n) : Cardinality({ r \in MatchIdx(n) : r <= q }) = j

\* the number of records the claim gives parent n
BlockLen(n) ==
    IF MatchCount(n) >= 1 THEN MatchCount(n)
    ELSE IF join_type = "left" THEN 1 ELSE 0

RECURSIVE Offset(_)
Offset(n) == IF n <= 1 THEN 0 ELSE Offset(n - 1) + BlockLen(n - 1)

JoinReturned == jpc = "done" /\ joined.ok

\* C8: for a non-empty parent set the join output is the concatenation, in
\* parent order, of one block per parent: M merged records in child order
\* when M >= 1 children share its key, the unmodified parent when M = 0 and
\* the join is left, nothing when M = 0 and the join is inner; so the output
\* has sum(max(M,1)) records for a left join and sum(M) for an inner join.
C8_JoinCardinalityAndOrder ==
    (jpc = "done" /\ parent_data # <<>>) =>
        /\ joined.ok
        /\ Len(joined.value) = Offset(Len(parent_data) + 1)
        /\ \A n \in 1..Len(parent_data) :
              /\ join_type = "left" => BlockLen(n) = IF MatchCount(n) >= 1 THEN MatchCount(n) ELSE 1
              /\ join_type = "inner" => BlockLen(n) = MatchCount(n)
              /\ MatchCount(n) = 0 /\ join_type = "left" =>
                    joined.value[Offset(n) + 1] = parent_data[n]
              /\ \A j \in 1..MatchCount(n) :
                    joined.value[Offset(n) + j]
                        = MergeRows(parent_data[n], child_data[NthMatch(n, j)], JoinKey)

\* C8 witness: a left join of two parents, the first with two matching
\* children and the second with none, returned three records.
C8_Witness ==
    /\ JoinReturned
    /\ join_type = "left"
    /\ Len(parent_data) = 2
    /\ MatchCount(1) = 2
    /\ MatchCount(2) = 0
    /\ Len(child_data) = 3
    /\ Len(joined.value) = 3

\* C9: in every merged record each parent column still holds the parent's
\* value and each child column other than the join key is present, under
\* its own name or under the prefixed name when it collides with a parent
\* column, holding the child's value.
C9_JoinCollisionSafety ==
    JoinReturned =>
        \A n \in 1..Len(parent_data) : \A j \in 1..MatchCount(n) :
            LET p == parent_data[n]
                c == child_data[NthMatch(n, j)]
                m == joined.value[Offset(n) + j]
            IN /\ \A a \in 1..Len(p) : HasKey(m, p[a][1]) /\ Get(m, p[a][1], None) = p[a][2]
               /\ \A b \in 1..Len(c) :
                     c[b][1] # JoinKey =>
                        LET name == IF HasKey(p, c[b][1]) THEN Prefixed(c[b][1]) ELSE c[b][1]
                        IN HasKey(m, name) /\ Get(m, name, None) = c[b][2]

\* the multiset of the records of a batch
SeqToBag(s) ==
    [r \in { s[n] : n \in 1..Len(s) } |-> Cardinality({ n \in 1..Len(s) : s[n] = r })]

\* the orderings of a sequence
Reorderings(s) ==
    { [n \in 1..Len(s) |-> s[f[n]]] :
        f \in { g \in [1..Len(s) -> 1..Len(s)] : \A a, b \in 1..Len(s) : g[a] = g[b] => a = b } }

\* C10: joining the same parents with the child records in any other order
\* gives the same records with the same multiplicities.
C10_JoinChildOrderInsensitive ==
    JoinReturned =>
        \A perm \in Reorderings(child_data) :
            LET other == join_datasets(parent_data, perm, JoinKey, join_type)
            IN other.ok /\ SeqToBag(other.value) = SeqToBag(joined.value)

\* C10 witness: a parent matched by two different children, whose order
\* decides the order of the output.
C10_Witness ==
    /\ JoinReturned
    /\ \E n \in 1..Len(parent_data) :
          /\ MatchCount(n) = 2
          /\ child_data[NthMatch(n, 1)] # child_data[NthMatch(n, 2)]
    /\ \E perm \in Reorderings(child_data) :
          join_datasets(parent_data, perm, JoinKey, join_type).value # joined.value

-----------------------------------------------------------------------------
(* Claims about process_ingestion, checked under SpecIngest *)

Rels == ing_config.relationships

\* the records of the source called name
SourceData(name) ==
    LET source == ing_config.sources[
                      CHOOSE n \in 1..Len(ing_config.sources) : ing_config.sources[n].name = name]
    IN read_delimited_file(source.path, source.delimiter, TRUE).value.data

IsSource(name) == \E n \in 1..Len(ing_config.sources) : ing_config.sources[n].name = name

\* the last of the first k relationships called name, 0 when there is none
LastNamed(name, k) ==
    IF \E j \in 1..k : Rels[j].name = name
    THEN CHOOSE j \in 1..k : Rels[j].name = name /\ \A m \in (j + 1)..k : Rels[m].name # name
    ELSE 0

\* name is addressable once the first k relationships are processed
Resolves(name, k) == LastNamed(name, k) > 0 \/ IsSource(name)

\* what name addresses once the first k relationships are processed, and
\* the output of relationship k: the join of what its parent and its child
\* address when it is processed
RECURSIVE Addressed(_, _), RelOutput(_)
Addressed(name, k) ==
    IF LastNamed(name, k) > 0 THEN RelOutput(LastNamed(name, k)) ELSE SourceData(name)

RelOutput(k) ==
    JoinLoop(Addressed(Rels[k].parent, k - 1), Addressed(Rels[k].child, k - 1),
             Rels[k].join_key, Rels[k].join_type, 1)

\* relationship k finds its parent and its child, and its parent has records
RelResolves(k) == Resolves(Rels[k].parent, k - 1) /\ Resolves(Rels[k].child, k - 1)

RelJoins(k) == RelResolves(k) /\ Addressed(Rels[k].parent, k - 1) # <<>>

IngestDone == ipc = "done"

\* the batch of the envelope process_ingestion returned
IngestedBatch == Deref(ingested.heap, ingested.result.data)

\* C11: relationships are processed in declared order, each addressing by
\* name the sources and the outputs of the relationships before it (never
\* one declared later); when every relationship joins, the envelope is
\* SUCCESS and its batch is the output of the last declared relationship.
C11_ChainedJoins ==
    (IngestDone /\ Rels # <<>>) =>
        /\ (\A k \in 1..Len(Rels) : RelJoins(k)) =>
              /\ ingested.result.status = "SUCCESS"
              /\ IngestedBatch = RelOutput(Len(Rels))
              /\ ingested.result.record_count = Len(RelOutput(Len(Rels)))
        /\ ingested.result.status = "SUCCESS" => \A k \in 1..Len(Rels) : RelJoins(k)

\* C11 witness: the second relationship joins the output of the first with
\* a source, and the batch returned is the second's output, not the first's.
C11_Witness ==
    /\ IngestDone
    /\ Len(Rels) = 2
    /\ Rels[1].name = "r1" /\ Rels[2].name = "r2" /\ Rels[2].parent = "r1"
    /\ ingested.result.status = "SUCCESS"
    /\ IngestedBatch # <<>>
    /\ IngestedBatch # RelOutput(1)

\* the error of a join whose parent dataset has no record
EmptyParentError == "[INGESTION] Join operation failed: [INGESTION] Parent dataset is empty"

\* C12: when the first relationship that does not join is one whose parent
\* and child are found and whose parent has no record (a source without
\* records, or an earlier join that produced none), process_ingestion
\* returns a FAILED envelope with the join's IngestionError, an empty batch
\* and record_count 0, and no batch was produced.
C12_EmptyParentFails ==
    IngestDone =>
        \A k \in 1..Len(Rels) :
            ( /\ \A j \in 1..(k - 1) : RelJoins(j)
              /\ RelResolves(k)
              /\ Addressed(Rels[k].parent, k - 1) = <<>> ) =>
                /\ ingested.result.status = "FAILED"
                /\ ingested.result.error = EmptyParentError
                /\ ingested.result.data = EmptyList
                /\ ingested.result.record_count = 0
                /\ ingested.heap = <<>>

\* C12 witness: the first relationship is an inner join without a match,
\* the second has it as its parent, and the ingestion FAILED.
C12_Witness ==
    /\ IngestDone
    /\ Len(Rels) = 2
    /\ RelJoins(1) /\ RelOutput(1) = <<>>
    /\ Rels[2].parent = Rels[1].name
    /\ RelResolves(2)
    /\ ingested.result.status = "FAILED"

-----------------------------------------------------------------------------
(* Claims about read_delimited_file, checked under SpecRead *)

\* the lines of the file that are not blank, stripped, in file order
RECURSIVE NonBlank(_)
NonBlank(lines) ==
    IF lines = <<>> THEN <<>>
    ELSE IF StripLine(Head(lines)) = <<>> THEN NonBlank(Tail(lines))
    ELSE <<StripLine(Head(lines))>> \o NonBlank(Tail(lines))

\* the record of a data line under the header's columns: the columns in
\* header order, the fields by position, null where the line has no field
RecordOf(header, fields) ==
    [j \in 1..Len(header) |-> <<header[j], IF j <= Len(fields) THEN fields[j] ELSE None>>]

ReadDone == rpc = "done" /\ with_header

\* C13: for a file made of a header line followed by N data lines, with
\* blank lines anywhere among them, read_delimited_file returns the
\* header's columns and exactly N records in file order, each with the
\* header's columns in header order, the values by position and null for
\* each missing trailing column.
C13_HeaderAndRecords ==
    (ReadDone /\ NonBlank(file_lines) # <<>>) =>
        LET header == Split(Head(NonBlank(file_lines)), "|")
            lines == Tail(NonBlank(file_lines))
        IN /\ read_out.headers = header
           /\ Len(read_out.data) = Len(lines)
           /\ \A k \in 1..Len(lines) :
                 read_out.data[k] = RecordOf(header, Split(lines[k], "|"))

-----------------------------------------------------------------------------
(* Claims about the four checks, checked under SpecCheck *)

Checked(rule_name) == dqpc = "checked" /\ rules[1].rule_name = rule_name

\* the violations found for the record of that index (from 0)
FoundAt(index) == SelectSeq(found, LAMBDA f : f.record_index = index)

\* the key of record n (from 1): the string values of the columns, in order
DupKey(n) ==
    [c \in 1..Len(rules[1].columns) |->
        LET row == dq_data[n]
            col == rules[1].columns[c]
        IN IF ~HasKey(row, col) THEN ""
           ELSE IF Get(row, col, "") = None THEN "None" ELSE Get(row, col, "")]

\* the first record carrying the key of record n
FirstOccurrence(n) == CHOOSE m \in 1..n : DupKey(m) = DupKey(n) /\ \A q \in 1..(m - 1) : DupKey(q) # DupKey(n)

\* C14: duplicate_check reports no violation for the first record carrying
\* a key and exactly one for every later record carrying it, which names the
\* index of the first occurrence; K records sharing a key give K-1
\* violations.
C14_DuplicatesAfterFirst ==
    Checked("duplicate_check") =>
        /\ \A n \in 1..Len(dq_data) :
              IF FirstOccurrence(n) = n THEN FoundAt(n - 1) = <<>>
              ELSE /\ Len(FoundAt(n - 1)) = 1
                   /\ FoundAt(n - 1)[1].issue =
                        "Duplicate found (first occurrence at record "
                            \o ToString(FirstOccurrence(n) - 1) \o ")"
        /\ Len(found) = Len(dq_data) - Cardinality({DupKey(n) : n \in 1..Len(dq_data)})
        /\ \A q \in 1..(Len(found) - 1) : found[q].record_index < found[q + 1].record_index

\* C14 witness: three records share a key, and the second and the third
\* are the two violations, naming record 0.
C14_Witness ==
    /\ Checked("duplicate_check")
    /\ Len(dq_data) = 3
    /\ DupKey(1) = DupKey(2) /\ DupKey(2) = DupKey(3)
    /\ Len(found) = 2
    /\ found[1].record_index = 1 /\ found[2].record_index = 2
    /\ found[2].issue = "Duplicate found (first occurrence at record 0)"

\* the value of column x of record n is empty: absent, null or ''
EmptyX(n) == ~HasKey(dq_data[n], "x") \/ Get(dq_data[n], "x", "") \in {None, ""}

\* the value of column x of record n is a number, and that number
NumericX(n) == Get(dq_data[n], "x", "") \in DOMAIN FloatTable \cup {Zero}

NumberX(n) ==
    IF Get(dq_data[n], "x", "") = Zero THEN 0 ELSE FloatTable[Get(dq_data[n], "x", "")]

BelowMin(n) == rules[1].min_value # NoNumber /\ NumberX(n) < rules[1].min_value[1]

AboveMax(n) == rules[1].max_value # NoNumber /\ NumberX(n) > rules[1].max_value[1]

\* C15: range_check reports nothing for an empty value, exactly one
\* violation (invalid numeric value) for a value that is no number, and for
\* a number one violation when it is below min and one when it is above
\* max, independently; a number equal to min or max is no violation.
C15_RangeViolations ==
    Checked("range_check") =>
        \A n \in 1..Len(dq_data) :
            IF EmptyX(n) THEN FoundAt(n - 1) = <<>>
            ELSE IF ~NumericX(n)
            THEN /\ Len(FoundAt(n - 1)) = 1
                 /\ FoundAt(n - 1)[1].issue = "Invalid numeric value"
            ELSE Len(FoundAt(n - 1)) = (IF BelowMin(n) THEN 1 ELSE 0)
                                       + (IF AboveMax(n) THEN 1 ELSE 0)

\* C16: format_check reports a record if and only if its value is not empty
\* (absent, null, '') and the pattern does not match at the start of the
\* value.
C16_FormatViolations ==
    Checked("format_check") =>
        \A n \in 1..Len(dq_data) :
            Len(FoundAt(n - 1)) =
                (IF ~EmptyX(n) /\ ~Match(Compile(rules[1].pattern), Get(dq_data[n], "x", ""))
                 THEN 1 ELSE 0)

\* the value of column col of record n is absent, null, or empty or blank
NullValue(n, col) ==
    ~HasKey(dq_data[n], col) \/ Get(dq_data[n], col, "") \in {None, "", " "}

\* C17: null_check reports exactly one violation (i, c) for every record i
\* and configured column c whose value is absent, null or empty after
\* trimming, and none for any other (i, c).
C17_NullViolations ==
    Checked("null_check") =>
        /\ \A n \in 1..Len(dq_data) : \A c \in 1..Len(rules[1].columns) :
              Len(SelectSeq(FoundAt(n - 1), LAMBDA f : f.column = rules[1].columns[c]))
                  = (IF NullValue(n, rules[1].columns[c]) THEN 1 ELSE 0)
        /\ \A q \in 1..Len(found) :
              /\ found[q].record_index \in 0..(Len(dq_data) - 1)
              /\ \E c \in 1..Len(rules[1].columns) : found[q].column = rules[1].columns[c]

\* C17 witness: one record has a blank x and no y, another a padded x that
\* is not empty and an empty y; three violations in all.
C17_Witness ==
    /\ Checked("null_check")
    /\ rules[1].columns = <<"x", "y">>
    /\ Len(dq_data) = 2
    /\ dq_data[1] = << <<"x", " ">> >>
    /\ dq_data[2] = << <<"x", " ann ">>, <<"y", "">> >>
    /\ Len(found) = 3

-----------------------------------------------------------------------------
(* Claims about run_dq_checks, checked under SpecDQ *)

EngineDone == dqpc = "done"

\* the action of rule n, warn when the rule states none
ActionOf(n) == IF "action" \in DOMAIN rules[n] THEN rules[n].action ELSE "warn"

\* the violations of rule n on the whole batch
ViolationsOf(n) == RuleFailures(dq_data, rules[n])

\* the number of violations of the first n rules, of those with action fail
\* or of the others
RECURSIVE CountViolations(_, _)
CountViolations(n, fail) ==
    IF n = 0 THEN 0
    ELSE CountViolations(n - 1, fail)
         + (IF (ActionOf(n) = "fail") = fail THEN Len(ViolationsOf(n)) ELSE 0)

\* C18: a rule's status is PASS with no violation whatever its action, FAIL
\* with violations and action fail, WARN with violations and action warn;
\* total_failures counts the violations of the fail rules, total_warnings
\* those of all other rules, and together they count the recorded
\* violations.
C18_RuleClassification ==
    EngineDone =>
        /\ \A n \in 1..Len(rules) :
              LET status == engine_out.rule_results[n].status
              IN /\ Len(ViolationsOf(n)) = 0 => status = "PASS"
                 /\ (Len(ViolationsOf(n)) > 0 /\ ActionOf(n) = "fail") => status = "FAIL"
                 /\ (Len(ViolationsOf(n)) > 0 /\ ActionOf(n) = "warn") => status = "WARN"
        /\ engine_out.total_failures = CountViolations(Len(rules), TRUE)
        /\ engine_out.total_warnings = CountViolations(Len(rules), FALSE)
        /\ engine_out.total_failures + engine_out.total_warnings = Len(engine_out.failed_records)

\* C18 witness: a fail rule and a warn rule both with violations, counted
\* apart.
C18_Witness ==
    /\ EngineDone
    /\ Len(rules) = 2
    /\ engine_out.rule_results[1].status = "FAIL"
    /\ engine_out.rule_results[2].status = "WARN"
    /\ engine_out.total_failures = 2
    /\ engine_out.total_warnings = 1

\* the violations of the first n rules in rule order, each with the name
\* and the action of its rule
RECURSIVE TaggedUpTo(_)
TaggedUpTo(n) ==
    IF n = 0 THEN <<>>
    ELSE TaggedUpTo(n - 1)
         \o [q \in 1..Len(ViolationsOf(n)) |->
                [record_index |-> ViolationsOf(n)[q].record_index,
                 column |-> ViolationsOf(n)[q].column,
                 value |-> ViolationsOf(n)[q].value,
                 issue |-> ViolationsOf(n)[q].issue,
                 rule_name |-> rules[n].rule_name, action |-> ActionOf(n)]]

\* C19: every configured rule is evaluated on the whole batch in declared
\* order whatever the earlier rules found: one outcome per rule, in order,
\* with the rule's violations on the whole batch, rules_executed the number
\* of rules, and every recorded violation tagged with the name and the
\* action of its rule.
C19_NoShortCircuit ==
    EngineDone =>
        /\ engine_out.rules_executed = Len(rules)
        /\ Len(engine_out.rule_results) = Len(rules)
        /\ \A n \in 1..Len(rules) :
              /\ engine_out.rule_results[n].rule_name = rules[n].rule_name
              /\ engine_out.rule_results[n].action = ActionOf(n)
              /\ engine_out.rule_results[n].failure_count = Len(ViolationsOf(n))
        /\ engine_out.failed_records = TaggedUpTo(Len(rules))

\* C19 witness: the first rule fails, and the second rule still ran and
\* recorded its own violations.
C19_Witness ==
    /\ EngineDone
    /\ Len(rules) = 2
    /\ engine_out.rule_results[1].status = "FAIL"
    /\ engine_out.rule_results[2].failure_count > 0
    /\ engine_out.rule_results[2].rule_name # engine_out.rule_results[1].rule_name
    /\ \E q \in 1..Len(engine_out.failed_records) :
          engine_out.failed_records[q].rule_name = rules[2].rule_name

-----------------------------------------------------------------------------
(* Claim about the batch a DQ stage returns, checked under Spec *)

\* call k is a DQ stage that evaluated its rules on a batch with records
DQEvaluated(k) ==
    /\ calls[k].component_type = "DQ-CHECKER"
    /\ calls[k].engine
    /\ calls[k].returned # NoneObj
    /\ calls[k].returned.status = "SUCCESS"

\* C20: a DQ stage that evaluated its rules on a non-empty batch returns
\* the batch object it was given, with the same records in the same order
\* and the same columns and values; dq_status and dq_issues are in no
\* record.
C20_BatchUntouched ==
    \A k \in 1..Len(calls) :
        DQEvaluated(k) =>
            /\ calls[k].input_batch # <<>>
            /\ calls[k].returned.data = calls[k].input.data
            /\ calls[k].returned_batch = calls[k].input_batch
            /\ \A n \in 1..Len(calls[k].returned_batch) :
                  /\ ~HasKey(calls[k].returned_batch[n], "dq_status")
                  /\ ~HasKey(calls[k].returned_batch[n], "dq_issues")

\* C20 witness: a DQ stage found violations in a batch with records and
\* returned the batch as it was.
C20_Witness ==
    \E k \in 1..Len(calls) :
        /\ DQEvaluated(k)
        /\ calls[k].returned.dq_results.failed_records # <<>>
        /\ calls[k].returned_batch = calls[k].input_batch
        /\ Len(calls[k].returned_batch) > 1

-----------------------------------------------------------------------------
(* Claims about run_transformations, checked under SpecTransform *)

TransformDone == tpc = "done"

\* the batch before and after the n-th transformation
BeforeSpec(n) == IF n = 1 THEN tr_data ELSE tr_steps[n - 1]

AfterSpec(n) == tr_steps[n]

TypeOf(n) == tr_specs[n].type

TargetOf(n) == tr_specs[n].target_column

\* a value is empty: null or ''
EmptyValue(v) == v = None \/ v = ""

\* the names an expression refers to, no name for a malformed expression
ExpressionNames(expression) ==
    CASE expression = "price*qty" -> <<"price", "qty">>
      [] expression = "price/qty" -> <<"price", "qty">>
      [] expression = "price+qty" -> <<"price", "qty">>
      [] expression = "total+price" -> <<"total", "price">>
      [] OTHER -> <<>>

\* the number a field is bound to: its value when it is a decimal, else
\* zero
BoundTo(v) ==
    IF v \in DOMAIN Decimals THEN Decimals[v]
    ELSE IF IsNumber(v) THEN AsFloat(Numbers[v])
    ELSE IntNum(0)

\* evaluating the expression of transformation n on a row fails: it is
\* malformed, a name is no field of the row, or it divides by zero
EvaluationFails(n, row) ==
    LET names == ExpressionNames(tr_specs[n].expression)
    IN \/ names = <<>>
       \/ \E q \in 1..Len(names) : ~HasKey(row, names[q])
       \/ tr_specs[n].expression = "price/qty" /\ BoundTo(Get(row, "qty", "")).n = 0

\* the expression of transformation n on a row, rounded to 2 decimals
Evaluated(n, row) ==
    LET names == ExpressionNames(tr_specs[n].expression)
        x == BoundTo(Get(row, names[1], ""))
        y == BoundTo(Get(row, names[2], ""))
    IN Round2(CASE tr_specs[n].expression = "price*qty" -> Times(x, y)
                [] tr_specs[n].expression = "price/qty" -> Over(x, y)
                [] OTHER -> Plus(x, y))

\* a column value is the number x
IsValue(v, x) == IsNumber(v) /\ Signed(Numbers[v]) * x.d = Signed(x) * Numbers[v].d

\* C21: applying the transformations completes for all records and all
\* specs; date_extract writes '' to the target when the source value is
\* empty or does not parse, and derived_column writes 0 when evaluating the
\* expression fails.
C21_DegradesToDefault ==
    TransformDone =>
        /\ Len(tr_steps) = Len(tr_specs)
        /\ \A n \in 1..Len(tr_specs) :
              /\ Len(AfterSpec(n)) = Len(tr_data)
              /\ \A r \in 1..Len(tr_data) :
                    /\ (TypeOf(n) = "date_extract"
                         /\ ( \/ EmptyValue(Get(BeforeSpec(n)[r], tr_specs[n].source_column, ""))
                              \/ Get(BeforeSpec(n)[r], tr_specs[n].source_column, "") \notin DOMAIN Dates ))
                        => /\ HasKey(AfterSpec(n)[r], TargetOf(n))
                           /\ Get(AfterSpec(n)[r], TargetOf(n), None) = ""
                    /\ (TypeOf(n) = "derived_column" /\ EvaluationFails(n, BeforeSpec(n)[r]))
                        => /\ HasKey(AfterSpec(n)[r], TargetOf(n))
                           /\ IsValue(Get(AfterSpec(n)[r], TargetOf(n), None), IntNum(0))

\* C22: derived_column writes, for every record on which the expression
\* evaluates, its value with every decimal field bound to its number and
\* every other field to zero, rounded to 2 decimals; a field that is no
\* number does not change what the other fields contribute.
C22_DerivedBinding ==
    TransformDone =>
        \A n \in 1..Len(tr_specs) : \A r \in 1..Len(tr_data) :
            (TypeOf(n) = "derived_column" /\ ~EvaluationFails(n, BeforeSpec(n)[r]))
                => /\ HasKey(AfterSpec(n)[r], TargetOf(n))
                   /\ IsValue(Get(AfterSpec(n)[r], TargetOf(n), None),
                              Evaluated(n, BeforeSpec(n)[r]))

\* C23: after a transformation of any of the four types every record has
\* the target column, and date_format writes the record's source value
\* verbatim.
C23_TargetInEveryRecord ==
    TransformDone =>
        \A n \in 1..Len(tr_specs) : \A r \in 1..Len(tr_data) :
            /\ HasKey(AfterSpec(n)[r], TargetOf(n))
            /\ (TypeOf(n) = "date_format" /\ HasKey(BeforeSpec(n)[r], tr_specs[n].source_column))
                => Get(AfterSpec(n)[r], TargetOf(n), "absent")
                     = Get(BeforeSpec(n)[r], tr_specs[n].source_column, "")

\* transformation n reads the column
Reads(n, column) ==
    IF TypeOf(n) = "derived_column"
    THEN \E q \in 1..Len(ExpressionNames(tr_specs[n].expression)) :
            ExpressionNames(tr_specs[n].expression)[q] = column
    ELSE tr_specs[n].source_column = column

\* C24: the transformations run in declared order, each over the whole
\* batch: a date_format whose source is the target of the transformation
\* before it copies what that one wrote, and when two transformations write
\* the same target (the later one not reading it) every record is left
\* with the value of the later one, as if the earlier had not run.
C24_DeclaredOrder ==
    (TransformDone /\ Len(tr_specs) = 2) =>
        \A r \in 1..Len(tr_data) :
            /\ (TypeOf(2) = "date_format" /\ tr_specs[2].source_column = TargetOf(1)
                 /\ TargetOf(2) # TargetOf(1)
                 /\ HasKey(AfterSpec(1)[r], TargetOf(1)))
                => Get(AfterSpec(2)[r], TargetOf(2), "absent")
                     = Get(AfterSpec(1)[r], TargetOf(1), "")
            /\ (TargetOf(2) = TargetOf(1) /\ ~Reads(2, TargetOf(1)))
                => Get(AfterSpec(2)[r], TargetOf(2), "absent")
                     = Get(ApplyTransform(tr_data, tr_specs[2])[r], TargetOf(2), "absent")

-----------------------------------------------------------------------------
(* Claims about the batch across the stages of a run, checked under Spec *)

\* the target columns of the transformations a TRANSFORMER stage applies
TargetColumns ==
    { ConfigFiles.TRANSFORMATIONS_CONFIG.transformations[n].target_column :
        n \in 1..Len(ConfigFiles.TRANSFORMATIONS_CONFIG.transformations) }

\* no stage so far ended FAILED or SKIPPED
NoFailedOrSkipped ==
    \A k \in Stages :
        /\ ~calls[k].raised
        /\ calls[k].returned # NoneObj => calls[k].returned.status \notin {"FAILED", "SKIPPED"}

\* stage j is an ingestion and stage k works on the batch it produced
SameBatch(j, k) ==
    /\ j <= k
    /\ calls[j].component_type = "INGESTOR"
    /\ \A m \in Stages : (j < m /\ m <= k) => calls[m].component_type # "INGESTOR"

\* batch b has the records of batch a at the same positions: every column of
\* a record is still there, with its value unless it is a target column
StableBatch(a, b) ==
    /\ Len(b) = Len(a)
    /\ \A r \in 1..Len(a) : \A q \in 1..Len(a[r]) :
          /\ HasKey(b[r], a[r][q][1])
          /\ a[r][q][1] \notin TargetColumns => Get(b[r], a[r][q][1], None) = a[r][q][2]

\* C25: in a run with no FAILED or SKIPPED stage, the batch a stage returns
\* has as many records as the batch ingestion produced, in the same order,
\* with every column each record had, and with the same values except in
\* transformation target columns.
C25_BatchStability ==
    NoFailedOrSkipped =>
        \A j \in Stages : \A k \in Stages :
            SameBatch(j, k) => StableBatch(calls[j].returned_batch, calls[k].returned_batch)

\* C25 witness: a run of ingestion, DQ, transformation and routing ended
\* with no stage FAILED or SKIPPED; the transformation added columns and
\* changed the value of a target column that ingestion had produced.
C25_Witness ==
    /\ Returned
    /\ NoFailedOrSkipped
    /\ Len(calls) = 4
    /\ calls[1].component_type = "INGESTOR"
    /\ calls[2].component_type = "DQ-CHECKER"
    /\ calls[3].component_type = "TRANSFORMER"
    /\ calls[4].component_type = "ROUTER"
    /\ Len(calls[1].returned_batch) > 1
    /\ Len(calls[4].returned_batch[1]) > Len(calls[1].returned_batch[1])
    /\ \E r \in 1..Len(calls[1].returned_batch) :
          Get(calls[4].returned_batch[r], "name", None) # Get(calls[1].returned_batch[r], "name", None)

-----------------------------------------------------------------------------
(* Claim about process_router, checked under SpecRoute *)

RouteDone == rtpc = "done"

\* the enabled flag of the destination is not false
NotDisabled(destination) ==
    ~("enabled" \in DOMAIN destination /\ destination.enabled = FALSE)

\* the names of the destinations that are not disabled, in declared order
EnabledNames ==
    LET kept == SelectSeq(rt_dests, NotDisabled)
    IN [n \in 1..Len(kept) |-> kept[n].name]

\* C26: for a batch with records the router returns SUCCESS with the names
\* of the destinations whose enabled flag is not false, in declared order
\* (a disabled destination is not among them), and with the batch it was
\* given: the same object with the same records and values.
C26_RoutedDestinations ==
    (RouteDone /\ rt_data # <<>>) =>
        /\ routed.result.status = "SUCCESS"
        /\ routed.result.destinations_routed = EnabledNames
        /\ routed.result.data = 1
        /\ Deref(routed.heap, routed.result.data) = rt_data
        /\ routed.result.record_count = Len(rt_data)

\* C26 witness: a batch with records was routed through an enabled
\* destination, a disabled one and one without the flag, and two names
\* were returned.
C26_Witness ==
    /\ RouteDone
    /\ Len(rt_data) = 2
    /\ Len(rt_dests) = 3
    /\ "enabled" \in DOMAIN rt_dests[1] /\ rt_dests[1].enabled = TRUE
    /\ "enabled" \in DOMAIN rt_dests[2] /\ rt_dests[2].enabled = FALSE
    /\ "enabled" \notin DOMAIN rt_dests[3]
    /\ routed.result.destinations_routed = <<rt_dests[1].name, rt_dests[3].name>>

-----------------------------------------------------------------------------
(* Claims about main's loop and what it returns, checked under Spec *)

\* stage j is an ingestion that returned SUCCESS with a batch of no records
EmptyIngestion(j) ==
    /\ calls[j].component_type = "INGESTOR"
    /\ ~calls[j].raised
    /\ calls[j].returned.status = "SUCCESS"
    /\ calls[j].returned_batch = <<>>
    /\ calls[j].returned.record_count = 0

\* stage j is the ingestion stage of the run
TheIngestion(j) ==
    \A k \in Stages : calls[k].component_type = "INGESTOR" => k = j

\* C27: when the ingestion stage of a run returns SUCCESS with an empty
\* batch, every later DQ-CHECKER, TRANSFORMER and ROUTER stage ends
\* SKIPPED, no stage is FAILED, and main returns SUCCESS from its loop with
\* failed_component null.
C27_EmptyIngestionSucceeds ==
    \A j \in Stages :
        (EmptyIngestion(j) /\ TheIngestion(j)) =>
            /\ \A k \in Stages :
                  (k > j /\ calls[k].component_type \in DependentTypes) => Skipped(k)
            /\ \A k \in Stages : ~calls[k].raised /\ ~StageFailed(k)
            /\ all_success /\ failed_component = None
            /\ Returned => ret.status = "SUCCESS" /\ ret.failed_component = None

\* C27 witness: an inner join that matched no record gave a SUCCESS
\* envelope with an empty batch; the DQ, transformation and router stages
\* after it were SKIPPED and main returned SUCCESS.
C27_Witness ==
    /\ Returned
    /\ Len(calls) = 4
    /\ components[1].config_file_name = "/app/config/INGESTER_INNER.yaml"
    /\ EmptyIngestion(1)
    /\ calls[2].component_type = "DQ-CHECKER"
    /\ calls[3].component_type = "TRANSFORMER"
    /\ calls[4].component_type = "ROUTER"
    /\ \A k \in 2..4 : Skipped(k)
    /\ ret.status = "SUCCESS"

\* the component types of the stages started so far
StartedTypes == { calls[k].component_type : k \in Stages }

\* stage k is the last stage of its type started so far
LastOfType(k) ==
    \A m \in Stages : calls[m].component_type = calls[k].component_type => m <= k

\* C28: results has one entry per component type of the stages that were
\* started and none for any other type; the entry of a type is the outcome
\* of the last started stage of that type (the envelope it returned, or
\* FAILED with the error when it raised), so results can have fewer
\* entries than stages were executed; main returns this map from its loop.
C28_ResultsByType ==
    /\ { results[n][1] : n \in 1..Len(results) } = StartedTypes
    /\ Len(results) = Cardinality(StartedTypes)
    /\ Len(results) <= Len(calls)
    /\ \A k \in Stages :
          LastOfType(k) =>
              IF calls[k].raised
              THEN /\ Get(results, calls[k].component_type, NoneObj).status = "FAILED"
                   /\ "error" \in DOMAIN Get(results, calls[k].component_type, NoneObj)
              ELSE Get(results, calls[k].component_type, [absent |-> TRUE]) = calls[k].returned
    /\ Returned => ret.results = results

\* C28 witness: four stages of two types were executed; results has two
\* entries, and the ROUTER entry is the SKIPPED envelope of the last
\* router stage, not the SUCCESS envelope of the first.
C28_Witness ==
    /\ Returned
    /\ Len(calls) = 4
    /\ Len(ret.results) = 2
    /\ calls[2].component_type = "ROUTER"
    /\ calls[4].component_type = "ROUTER"
    /\ calls[2].returned.status = "SUCCESS"
    /\ calls[4].returned.status = "SKIPPED"
    /\ Get(ret.results, "ROUTER", NoneObj) = calls[4].returned

\* stage k has a component type without a handler
UnknownType(k) == calls[k].component_type \notin HandlerTypes

\* C29: a stage whose component type has no handler invokes no handler and
\* no engine, raises nothing and returns the envelope it was given, batch
\* included; that envelope is stored in results under the unknown type and
\* is the input of the next stage, and the run is only marked FAILED when
\* the handler of some stage failed.
C29_UnknownTypePassThrough ==
    /\ \A k \in Stages :
          UnknownType(k) =>
              /\ ~calls[k].handler /\ ~calls[k].engine /\ ~calls[k].raised
              /\ calls[k].returned = calls[k].input
              /\ calls[k].returned_batch = calls[k].input_batch
              /\ HasKey(results, calls[k].component_type)
              /\ LastOfType(k) =>
                    Get(results, calls[k].component_type, [absent |-> TRUE]) = calls[k].input
              /\ k < Len(calls) => calls[k + 1].input = calls[k].input
    /\ (~all_success \/ failed_component # None) =>
          \E k \in Stages : calls[k].handler /\ calls[k].raised
                             /\ failed_component = calls[k].component_type

\* C29 witness: an ARCHIVER stage between a successful ingestion and a
\* router handed the ingested envelope on; the router routed its batch and
\* main returned SUCCESS with the envelope stored under ARCHIVER.
C29_Witness ==
    /\ Returned
    /\ Len(calls) = 3
    /\ calls[1].component_type = "INGESTOR" /\ calls[1].returned_batch # <<>>
    /\ UnknownType(2)
    /\ calls[2].returned = calls[1].returned
    /\ calls[3].component_type = "ROUTER"
    /\ calls[3].input = calls[1].returned
    /\ calls[3].returned.status = "SUCCESS"
    /\ Get(ret.results, calls[2].component_type, NoneObj) = calls[1].returned
    /\ ret.status = "SUCCESS"

\* main left its loop with ConfigError at a component entry
InvalidEntryHit == pc = "config_error" /\ components # <<>>

\* C30: when main's loop comes to an entry that lacks component_type or
\* config_file_name (index i - 1 counted from 0), main returns FAILED with
\* an empty results map, the error naming that index, and no
\* failed_component; the stages of all earlier entries have been executed,
\* one each and none failing, and no stage of that or a later entry is
\* started. Entries are validated one per iteration: every started stage
\* has only valid entries up to its own, and a run that returns from the
\* loop without a failed stage had no malformed entry.
C30_MalformedEntry ==
    /\ InvalidEntryHit =>
          /\ ~ValidEntry(components[i])
          /\ \A m \in 1..(i - 1) : ValidEntry(components[m])
          /\ ret.status = "FAILED"
          /\ ret.results = <<>>
          /\ "failed_component" \notin DOMAIN ret
          /\ ret.error = ErrStr("CONFIG", "Invalid component configuration at index "
                                          \o ToString(Len(calls))
                                          \o ": missing component_type or config_file_name")
          /\ Len(calls) = i - 1
          /\ \A k \in Stages : calls[k].index = k /\ ~calls[k].raised
    /\ \A k \in Stages : \A m \in 1..calls[k].index : ValidEntry(components[m])
    /\ (Returned /\ all_success) =>
          /\ Len(calls) = Len(components)
          /\ \A m \in 1..Len(components) : ValidEntry(components[m])

\* C30 witness: the third of four entries lacks a key; the two stages
\* before it were executed and had stored their outcomes, the fourth was
\* not started, and main returned FAILED with an empty results map.
C30_Witness ==
    /\ InvalidEntryHit
    /\ Len(components) = 4
    /\ i = 3
    /\ Len(calls) = 2
    /\ calls[1].returned.status = "SUCCESS"
    /\ calls[2].returned.status = "SUCCESS"
    /\ Len(results) = 2
    /\ ret.results = <<>>
    /\ ret.status = "FAILED"

=============================================================================
